---------------------------- MODULE Spec2Model ----------------------------
(***************************************************************************)
(* Comm-B classifier of comm_b.c: decodeCommB and its ten candidate        *)
(* decoders, as a state machine over one frame descriptor (struct          *)
(* modesMessage).                                                          *)
(*                                                                         *)
(* Units.  The C code keeps several decoded values as float.  Every such   *)
(* value is a raw bit field times a constant, so the model keeps the       *)
(* exact value as an integer count of the field's least significant bit:   *)
(*      nav.qnh       tenths of hPa     (800 + raw*0.1  ->  8000 + raw)    *)
(*      roll          1/256 degree      (raw*45/256 - 90)                  *)
(*      heading       1/512 degree      (raw*90/512 + 180)                 *)
(*      track_rate    1/32 degree/s     (raw*8/256 - 16)                   *)
(*      mach          1/1000            (raw*2.048/512)                    *)
(*      wind_dir      1/256 degree      (raw*180/256)                      *)
(*      temperature   1/4 degree C      (raw*0.25 - 128)                   *)
(*      humidity      1/64 percent      (raw*100/64)                       *)
(* Integer fields (altitudes, speeds, rates, pressure) keep their units.   *)
(***************************************************************************)
EXTENDS Integers, Sequences, FiniteSets

VARIABLES
    mm,       \* the frame descriptor decodeCommB works on
    entry,    \* history: the descriptor as it was when decodeCommB was called
    sv,       \* history: the structured value the payload was encoded from
    ncalls,   \* history: number of candidate decoder calls made so far
    scores,   \* history: the scores the scoring loop got, in table order
    scored,   \* history: the descriptor as the scoring loop left it
    pc        \* "call" before decodeCommB runs, "return" after it returned

vars == <<mm, entry, sv, ncalls, scores, scored, pc>>

---------------------------------------------------------------------------
(* Bit accessor (dump1090.h getbit/getbits; described in the               *)
(* specification's section 4.1): bits are numbered 1..56, MSB first, byte  *)
(* MB[0] holds bits 1..8.  MB is the tuple <<MB[0], ..., MB[6]>>.          *)

getbit(msg, n) ==
    (msg[((n - 1) \div 8) + 1] \div (2 ^ (7 - ((n - 1) % 8)))) % 2

RECURSIVE getbits(_, _, _)
getbits(msg, lo, hi) ==
    IF hi = lo THEN getbit(msg, lo)
    ELSE 2 * getbits(msg, lo, hi - 1) + getbit(msg, hi)

(* AIS 6-bit character set (ais_charset.h), as ASCII codes:                *)
(*   0 '@', 1..26 'A'..'Z', 27..31 '[' '\' ']' '^' '_',                    *)
(*   32 ' ', 33..47 '!'..'/', 48..57 '0'..'9', 58..63 ':'..'?'             *)
ais_charset(c) == IF c < 32 THEN c + 64 ELSE c

---------------------------------------------------------------------------
(* A candidate decoder returns its score and the frame descriptor as it    *)
(* leaves it.                                                              *)

Ret(score, m) == [score |-> score, mm |-> m]

\* decodeEmptyResponse taking the all-zero payload only
decodeEmptyResponseZeroOnly(m, store) ==
    IF \E i \in 1..7 : m.MB[i] # 0 THEN Ret(0, m)
    ELSE Ret(56, IF store THEN [m EXCEPT !.commb_format = "EMPTY_RESPONSE"] ELSE m)

\* comm_b.c:88 decodeEmptyResponse
decodeEmptyResponse(m, store) ==
    IF m.MB[1] \notin {0, 64, 80, 96} THEN Ret(0, m)
    ELSE IF \E i \in 1..6 : m.MB[i + 1] # 0 THEN Ret(0, m)
    ELSE Ret(56, IF store THEN [m EXCEPT !.commb_format = "EMPTY_RESPONSE"] ELSE m)

\* comm_b.c:129 decodeBDS10
decodeBDS10(m, store) ==
    IF m.MB[1] # 16 THEN Ret(0, m)
    ELSE IF getbits(m.MB, 10, 14) # 0 THEN Ret(0, m)
    ELSE Ret(56, IF store THEN [m EXCEPT !.commb_format = "DATALINK_CAPS"] ELSE m)

\* decodeBDS30 writing the format on the scoring call as well
decodeBDS30Unconditional(m, store) ==
    IF m.MB[1] # 48 THEN Ret(0, m)
    ELSE Ret(56, [m EXCEPT !.commb_format = "ACAS_RA"])

\* comm_b.c:284 decodeBDS30
decodeBDS30(m, store) ==
    IF m.MB[1] # 48 THEN Ret(0, m)
    ELSE Ret(56, IF store THEN [m EXCEPT !.commb_format = "ACAS_RA"] ELSE m)


\* comm_b.c:153 decodeBDS17 (the score may be negative)
decodeBDS17(m, store) ==
    LET msg == m.MB
        b(n) == getbit(msg, n) = 1
        \* getbits(msg, 25, 56) != 0: the 32-bit value is nonzero iff one of
        \* its 16-bit halves is
        reserved == getbits(msg, 25, 40) # 0 \/ getbits(msg, 41, 56) # 0
        ident == IF b(7) THEN 1 ELSE -2
        unlikely ==
              (IF b(10) THEN -2 ELSE 0) + (IF b(11) THEN -2 ELSE 0)
            + (IF b(12) THEN -2 ELSE 0) + (IF b(13) THEN -1 ELSE 0)
            + (IF b(14) THEN -1 ELSE 0) + (IF b(20) THEN -2 ELSE 0)
            + (IF b(21) THEN -2 ELSE 0) + (IF b(22) THEN -2 ELSE 0)
        es == IF b(1) /\ b(2) /\ b(3) /\ b(4) /\ b(5)
                  THEN 5 + (IF b(6) THEN 1 ELSE 0)
              ELSE IF ~b(1) /\ ~b(2) /\ ~b(3) /\ ~b(4) /\ ~b(5) /\ ~b(6) THEN 1
              ELSE IF ~b(1) /\ ~b(2) /\ b(3) /\ b(4) /\ b(5) THEN 3
              ELSE -12
        regs == IF b(16) /\ b(24) THEN 2 + (IF b(9) THEN 1 ELSE 0)
                ELSE IF ~b(16) /\ ~b(24) /\ ~b(9) THEN 1
                ELSE -6
    IN  IF reserved THEN Ret(0, m)
        ELSE Ret(ident + unlikely + es + regs,
                 IF store THEN [m EXCEPT !.commb_format = "GICB_CAPS"] ELSE m)

\* the character test without the space
IsAlnum(ch) == (ch >= 65 /\ ch <= 90) \/ (ch >= 48 /\ ch <= 57)

\* comm_b.c:261 the character classes of the scoring loop
IsAlnumSpace(ch) ==
    (ch >= 65 /\ ch <= 90) \/ (ch >= 48 /\ ch <= 57) \/ ch = 32

\* decodeBDS20 setting callsign_valid also when it holds the callsign back
decodeBDS20FlagAlways(m, store) ==
    LET msg == m.MB
        callsign == [i \in 1..8 |-> ais_charset(getbits(msg, 6 * i + 3, 6 * i + 8))]
        invalid == \E i \in 1..8 : ~IsAlnumSpace(callsign[i]) /\ callsign[i] # 64
        score == 8 + 6 * Cardinality({i \in 1..8 : IsAlnumSpace(callsign[i])})
        valid == \A i \in 1..8 : callsign[i] # 64
    IN  IF msg[1] # 32 THEN Ret(0, m)
        ELSE IF invalid THEN Ret(0, m)
        ELSE Ret(score,
                 IF ~store THEN m
                 ELSE IF valid
                      THEN [m EXCEPT !.commb_format = "AIRCRAFT_IDENT",
                                     !.callsign = callsign,
                                     !.callsign_valid = 1]
                      ELSE [m EXCEPT !.commb_format = "AIRCRAFT_IDENT",
                                     !.callsign_valid = 1])

\* comm_b.c:237 decodeBDS20
decodeBDS20(m, store) ==
    LET msg == m.MB
        callsign == [i \in 1..8 |-> ais_charset(getbits(msg, 6 * i + 3, 6 * i + 8))]
        invalid == \E i \in 1..8 : ~IsAlnumSpace(callsign[i]) /\ callsign[i] # 64
        score == 8 + 6 * Cardinality({i \in 1..8 : IsAlnumSpace(callsign[i])})
        valid == \A i \in 1..8 : callsign[i] # 64
    IN  IF msg[1] # 32 THEN Ret(0, m)
        ELSE IF invalid THEN Ret(0, m)
        ELSE Ret(score,
                 IF ~store THEN m
                 ELSE IF valid
                      THEN [m EXCEPT !.commb_format = "AIRCRAFT_IDENT",
                                     !.callsign = callsign,
                                     !.callsign_valid = 1]
                      ELSE [m EXCEPT !.commb_format = "AIRCRAFT_IDENT"])

\* comm_b.c:400 and 408: the altitude is not within 16 ft of a multiple of 500
NotMultipleOf500(alt) == ~((alt % 500) < 16 \/ (alt % 500) > 484)

\* comm_b.c:433 nav.modes from the three mode bits
NavModes(mode_raw) ==
    (IF (mode_raw \div 4) % 2 = 1 THEN {"NAV_MODE_VNAV"} ELSE {})
    \cup (IF (mode_raw \div 2) % 2 = 1 THEN {"NAV_MODE_ALT_HOLD"} ELSE {})
    \cup (IF mode_raw % 2 = 1 THEN {"NAV_MODE_APPROACH"} ELSE {})

\* comm_b.c:441 nav.altitude_source from the source bits
NavAltSource(source_valid, source_raw) ==
    IF source_valid = 1
    THEN CASE source_raw = 0 -> "NAV_ALT_UNKNOWN"
           [] source_raw = 1 -> "NAV_ALT_AIRCRAFT"
           [] source_raw = 2 -> "NAV_ALT_MCP"
           [] source_raw = 3 -> "NAV_ALT_FMS"
           [] OTHER -> "NAV_ALT_INVALID"
    ELSE "NAV_ALT_INVALID"

\* the altitude test with both ends of the range left out
PlausibleAltitudeExclusive(alt) == alt > 1000 /\ alt < 50000

\* comm_b.c:328 and 343: the altitudes decodeBDS40 takes as plausible, in ft
PlausibleAltitude(alt) == alt >= 1000 /\ alt <= 50000

\* the fields of bits 48..56 read with the source at bit 48 and the mode at
\* bit 54
ModeSourceFieldsSwapped(msg) ==
    [mode_valid |-> getbit(msg, 54), mode_raw |-> getbits(msg, 55, 56),
     reserved_2 |-> getbits(msg, 52, 53),
     source_valid |-> getbit(msg, 48), source_raw |-> getbits(msg, 49, 51)]

\* comm_b.c:313-317: the fields decodeBDS40 reads from bits 48..56
ModeSourceFields(msg) ==
    [mode_valid |-> getbit(msg, 48), mode_raw |-> getbits(msg, 49, 51),
     reserved_2 |-> getbits(msg, 52, 53),
     source_valid |-> getbit(msg, 54), source_raw |-> getbits(msg, 55, 56)]

\* comm_b.c:302 decodeBDS40
decodeBDS40(m, store) ==
    LET msg == m.MB
        mcp_valid == getbit(msg, 1)
        mcp_raw == getbits(msg, 2, 13)
        fms_valid == getbit(msg, 14)
        fms_raw == getbits(msg, 15, 26)
        baro_valid == getbit(msg, 27)
        baro_raw == getbits(msg, 28, 39)
        reserved_1 == getbits(msg, 40, 47)
        mode_valid == ModeSourceFields(msg).mode_valid
        mode_raw == ModeSourceFields(msg).mode_raw
        reserved_2 == ModeSourceFields(msg).reserved_2
        source_valid == ModeSourceFields(msg).source_valid
        source_raw == ModeSourceFields(msg).source_raw
        mcp_alt == IF mcp_valid = 1 /\ mcp_raw # 0 THEN mcp_raw * 16 ELSE 0
        fms_alt == IF fms_valid = 1 /\ fms_raw # 0 THEN fms_raw * 16 ELSE 0
        baro_setting == IF baro_valid = 1 /\ baro_raw # 0 THEN 8000 + baro_raw ELSE 0
        mcp_ok == IF mcp_valid = 1 /\ mcp_raw # 0
                  THEN PlausibleAltitude(mcp_alt)
                  ELSE mcp_valid = 0 /\ mcp_raw = 0
        fms_ok == IF fms_valid = 1 /\ fms_raw # 0
                  THEN PlausibleAltitude(fms_alt)
                  ELSE fms_valid = 0 /\ fms_raw = 0
        baro_ok == IF baro_valid = 1 /\ baro_raw # 0
                   THEN baro_setting >= 9000 /\ baro_setting <= 11000
                   ELSE baro_valid = 0 /\ baro_raw = 0
        mode_ok == mode_valid = 1 \/ mode_raw = 0
        source_ok == source_valid = 1 \/ source_raw = 0
        score ==
              (IF mcp_valid = 1 THEN 13 ELSE 1)
            + (IF fms_valid = 1 THEN 13 ELSE 1)
            + (IF baro_valid = 1 THEN 13 ELSE 1)
            + (IF mode_valid = 1 THEN 4 ELSE 1)
            + (IF source_valid = 1 THEN 3 ELSE 1)
            - (IF mcp_valid = 1 /\ fms_valid = 1 /\ mcp_alt # fms_alt THEN 4 ELSE 0)
            - (IF mcp_valid = 1 /\ NotMultipleOf500(mcp_alt) THEN 4 ELSE 0)
            - (IF fms_valid = 1 /\ NotMultipleOf500(fms_alt) THEN 4 ELSE 0)
        stored ==
            [m EXCEPT
                !.commb_format = "VERTICAL_INTENT",
                !.nav.mcp_altitude_valid = IF mcp_valid = 1 THEN 1 ELSE @,
                !.nav.mcp_altitude = IF mcp_valid = 1 THEN mcp_alt ELSE @,
                !.nav.fms_altitude_valid = IF fms_valid = 1 THEN 1 ELSE @,
                !.nav.fms_altitude = IF fms_valid = 1 THEN fms_alt ELSE @,
                !.nav.qnh_valid = IF baro_valid = 1 THEN 1 ELSE @,
                !.nav.qnh = IF baro_valid = 1 THEN baro_setting ELSE @,
                !.nav.modes_valid = IF mode_valid = 1 THEN 1 ELSE @,
                !.nav.modes = IF mode_valid = 1 THEN NavModes(mode_raw) ELSE @,
                !.nav.altitude_source = NavAltSource(source_valid, source_raw)]
    IN  IF mcp_valid = 0 /\ fms_valid = 0 /\ baro_valid = 0
           /\ mode_valid = 0 /\ source_valid = 0 THEN Ret(0, m)
        ELSE IF ~mcp_ok \/ ~fms_ok \/ ~baro_ok THEN Ret(0, m)
        ELSE IF reserved_1 # 0 THEN Ret(0, m)
        ELSE IF ~mode_ok THEN Ret(0, m)
        ELSE IF reserved_2 # 0 THEN Ret(0, m)
        ELSE IF ~source_ok THEN Ret(0, m)
        ELSE Ret(score, IF store THEN stored ELSE m)


Abs(x) == IF x < 0 THEN -x ELSE x

(* comm_b.c:585: 68625 * tan(roll * M_PI / 180.0) / (20 * M_PI), times     *)
(* 1000 and rounded to the nearest integer, for roll = k*45/256 degrees,   *)
(* k = 0..227 (every roll the range check at line 503 lets through is      *)
(* +-k*45/256, since the sign bit subtracts 90 = 512*45/256; tan is odd).  *)
TurnTable ==
    <<
        0, 3351, 6702, 10053, 13404, 16755, 20107, 23459,
        26812, 30165, 33519, 36873, 40228, 43584, 46940, 50298,
        53656, 57016, 60376, 63738, 67101, 70465, 73830, 77197,
        80566, 83935, 87307, 90680, 94055, 97431, 100810, 104190,
        107572, 110957, 114343, 117732, 121123, 124516, 127912, 131310,
        134710, 138113, 141519, 144927, 148339, 151753, 155170, 158590,
        162013, 165439, 168868, 172301, 175737, 179176, 182619, 186065,
        189515, 192968, 196426, 199887, 203352, 206821, 210294, 213771,
        217252, 220738, 224228, 227722, 231221, 234724, 238232, 241745,
        245262, 248784, 252311, 255843, 259381, 262923, 266471, 270024,
        273582, 277146, 280715, 284290, 287871, 291458, 295050, 298648,
        302253, 305863, 309480, 313103, 316732, 320368, 324011, 327660,
        331315, 334978, 338648, 342324, 346008, 349698, 353396, 357102,
        360814, 364535, 368263, 371998, 375742, 379493, 383253, 387020,
        390796, 394580, 398372, 402173, 405982, 409801, 413628, 417463,
        421308, 425162, 429026, 432898, 436780, 440672, 444573, 448484,
        452404, 456335, 460276, 464227, 468188, 472160, 476143, 480136,
        484139, 488154, 492180, 496217, 500265, 504324, 508395, 512478,
        516573, 520679, 524797, 528928, 533071, 537226, 541394, 545574,
        549768, 553974, 558193, 562426, 566672, 570932, 575205, 579492,
        583793, 588109, 592438, 596782, 601141, 605514, 609902, 614306,
        618724, 623158, 627607, 632073, 636554, 641051, 645564, 650094,
        654640, 659203, 663783, 668380, 672994, 677626, 682276, 686943,
        691629, 696332, 701054, 705795, 710555, 715333, 720131, 724948,
        729785, 734642, 739519, 744416, 749334, 754272, 759232, 764213,
        769215, 774238, 779284, 784352, 789442, 794555, 799690, 804849,
        810031, 815237, 820467, 825721, 830999, 836302, 841630, 846983,
        852362, 857766, 863197, 868654, 874138, 879649, 885187, 890752,
        896346, 901968, 907618, 913298
    >>

\* comm_b.c:585: the theoretical turn rate times tas, in 1/1000 degree/s * kt
TurnRateTimesTas(roll) ==
    IF roll < 0 THEN -TurnTable[((-roll) \div 45) + 1] ELSE TurnTable[(roll \div 45) + 1]

(* comm_b.c:584-590: fabs(turn_rate - track_rate) > 2.0 with                *)
(* turn_rate = TurnRateTimesTas/(1000*tas) and track_rate in 1/32 degree/s, *)
(* multiplied through by 32000*tas.  The rounding of the table never       *)
(* changes the comparison for a roll, tas and track rate the range checks  *)
(* accept.                                                                 *)
TurnRateDisagrees(roll, tas, track_rate) ==
    Abs(32 * TurnRateTimesTas(roll) - track_rate * 1000 * tas) > 64000 * tas

\* a speed range that leaves out its two ends
PlausibleSpeedExclusive(speed) == speed > 50 /\ speed < 700

\* comm_b.c:531, 564: the range of a ground speed or true airspeed, in kt
PlausibleSpeed(speed) == speed >= 50 /\ speed <= 700

\* comm_b.c:468 decodeBDS50
decodeBDS50(m, store) ==
    LET msg == m.MB
        roll_valid == getbit(msg, 1)
        roll_sign == getbit(msg, 2)
        roll_raw == getbits(msg, 3, 11)
        track_valid == getbit(msg, 12)
        track_sign == getbit(msg, 13)
        track_raw == getbits(msg, 14, 23)
        gs_valid == getbit(msg, 24)
        gs_raw == getbits(msg, 25, 34)
        track_rate_valid == getbit(msg, 35)
        track_rate_sign == getbit(msg, 36)
        track_rate_raw == getbits(msg, 37, 45)
        tas_valid == getbit(msg, 46)
        tas_raw == getbits(msg, 47, 56)
        roll == IF roll_valid = 1
                THEN roll_raw * 45 - (IF roll_sign = 1 THEN 90 * 256 ELSE 0)
                ELSE 0
        track == IF track_valid = 1
                 THEN track_raw * 90 + (IF track_sign = 1 THEN 180 * 512 ELSE 0)
                 ELSE 0
        gs == IF gs_valid = 1 /\ gs_raw # 0 THEN gs_raw * 2 ELSE 0
        track_rate == IF track_rate_valid = 1
                      THEN track_rate_raw - (IF track_rate_sign = 1 THEN 16 * 32 ELSE 0)
                      ELSE 0
        tas == IF tas_valid = 1 /\ tas_raw # 0 THEN tas_raw * 2 ELSE 0
        roll_ok == IF roll_valid = 1
                   THEN roll >= -40 * 256 /\ roll < 40 * 256
                   ELSE roll_raw = 0 /\ roll_sign = 0
        track_ok == track_valid = 1 \/ (track_raw = 0 /\ track_sign = 0)
        gs_ok == IF gs_valid = 1 /\ gs_raw # 0
                 THEN PlausibleSpeed(gs)
                 ELSE gs_valid = 0 /\ gs_raw = 0
        track_rate_ok == IF track_rate_valid = 1
                         THEN track_rate >= -10 * 32 /\ track_rate <= 10 * 32
                         ELSE track_rate_raw = 0 /\ track_rate_sign = 0
        tas_ok == IF tas_valid = 1 /\ tas_raw # 0
                  THEN PlausibleSpeed(tas)
                  ELSE tas_valid = 0 /\ tas_raw = 0
        score ==
              (IF roll_valid = 1 THEN 11 ELSE 1)
            + (IF track_valid = 1 THEN 12 ELSE 1)
            + (IF gs_valid = 1 THEN 11 ELSE 1)
            + (IF track_rate_valid = 1 THEN 11 ELSE 1)
            + (IF tas_valid = 1 THEN 11 ELSE 1)
            \* line 577: the delta is taken between the two validity bits
            - (IF gs_valid = 1 /\ tas_valid = 1 /\ Abs(gs_valid - tas_valid) > 150
               THEN 6 ELSE 0)
            - (IF roll_valid = 1 /\ tas_valid = 1 /\ tas > 0 /\ track_rate_valid = 1
                  /\ TurnRateDisagrees(roll, tas, track_rate)
               THEN 6 ELSE 0)
        stored ==
            [m EXCEPT
                !.commb_format = "TRACK_TURN",
                !.roll_valid = IF roll_valid = 1 THEN 1 ELSE @,
                !.roll = IF roll_valid = 1 THEN roll ELSE @,
                !.heading_valid = IF track_valid = 1 THEN 1 ELSE @,
                !.heading = IF track_valid = 1 THEN track ELSE @,
                !.heading_type = IF track_valid = 1 THEN "HEADING_GROUND_TRACK" ELSE @,
                !.gs_valid = IF gs_valid = 1 THEN 1 ELSE @,
                !.gs = IF gs_valid = 1 THEN [v0 |-> gs, v2 |-> gs, selected |-> gs] ELSE @,
                !.track_rate_valid = IF track_rate_valid = 1 THEN 1 ELSE @,
                !.track_rate = IF track_rate_valid = 1 THEN track_rate ELSE @,
                !.tas_valid = IF tas_valid = 1 THEN 1 ELSE @,
                !.tas = IF tas_valid = 1 THEN tas ELSE @]
    IN  IF roll_valid = 0 \/ track_valid = 0 \/ gs_valid = 0 \/ tas_valid = 0
        THEN Ret(0, m)
        ELSE IF ~roll_ok \/ ~track_ok \/ ~gs_ok \/ ~track_rate_ok \/ ~tas_ok
        THEN Ret(0, m)
        ELSE Ret(score, IF store THEN stored ELSE m)

\* the heading without the half turn of the sign bit
MagneticHeadingUnsigned(heading_sign, heading_raw) == heading_raw * 90

\* comm_b.c:656-659: the magnetic heading of BDS6,0, in 1/512 degree
MagneticHeading(heading_sign, heading_raw) ==
    heading_raw * 90 + (IF heading_sign = 1 THEN 180 * 512 ELSE 0)

\* a vertical rate without the offset of the sign bit
VerticalRateUnsigned(sign, raw) == raw * 32

\* comm_b.c:697-700, 715-718: a vertical rate of BDS6,0, in ft/min
VerticalRate(sign, raw) == raw * 32 - (IF sign = 1 THEN 16384 ELSE 0)

\* comm_b.c:626 decodeBDS60
decodeBDS60(m, store) ==
    LET msg == m.MB
        heading_valid == getbit(msg, 1)
        heading_sign == getbit(msg, 2)
        heading_raw == getbits(msg, 3, 12)
        ias_valid == getbit(msg, 13)
        ias_raw == getbits(msg, 14, 23)
        mach_valid == getbit(msg, 24)
        mach_raw == getbits(msg, 25, 34)
        baro_rate_valid == getbit(msg, 35)
        baro_rate_sign == getbit(msg, 36)
        baro_rate_raw == getbits(msg, 37, 45)
        inertial_rate_valid == getbit(msg, 46)
        inertial_rate_sign == getbit(msg, 47)
        inertial_rate_raw == getbits(msg, 48, 56)
        heading == IF heading_valid = 1
                   THEN MagneticHeading(heading_sign, heading_raw)
                   ELSE 0
        ias == IF ias_valid = 1 /\ ias_raw # 0 THEN ias_raw ELSE 0
        \* mach_raw * 2.048 / 512 in thousandths; as a float it compares with
        \* 0.1 and 0.9 the way mach_raw * 4 compares with 100 and 900
        mach == IF mach_valid = 1 /\ mach_raw # 0 THEN mach_raw * 4 ELSE 0
        baro_rate == IF baro_rate_valid = 1
                     THEN VerticalRate(baro_rate_sign, baro_rate_raw)
                     ELSE 0
        inertial_rate == IF inertial_rate_valid = 1
                         THEN VerticalRate(inertial_rate_sign, inertial_rate_raw)
                         ELSE 0
        heading_ok == heading_valid = 1 \/ (heading_raw = 0 /\ heading_sign = 0)
        ias_ok == IF ias_valid = 1 /\ ias_raw # 0
                  THEN ias >= 50 /\ ias <= 700
                  ELSE ias_valid = 0 /\ ias_raw = 0
        mach_ok == IF mach_valid = 1 /\ mach_raw # 0
                   THEN mach >= 100 /\ mach <= 900
                   ELSE mach_valid = 0 /\ mach_raw = 0
        baro_rate_ok == IF baro_rate_valid = 1
                        THEN baro_rate >= -6000 /\ baro_rate <= 6000
                        ELSE baro_rate_raw = 0
        inertial_rate_ok == IF inertial_rate_valid = 1
                            THEN inertial_rate >= -6000 /\ inertial_rate <= 6000
                            ELSE inertial_rate_raw = 0
        score ==
              (IF heading_valid = 1 THEN 12 ELSE 1)
            + (IF ias_valid = 1 THEN 11 ELSE 1)
            + (IF mach_valid = 1 THEN 11 ELSE 1)
            + (IF baro_rate_valid = 1 THEN 11 ELSE 1)
            + (IF inertial_rate_valid = 1 THEN 11 ELSE 1)
            - (IF baro_rate_valid = 1 /\ inertial_rate_valid = 1
                  /\ Abs(baro_rate - inertial_rate) > 2000
               THEN 12 ELSE 0)
        stored ==
            [m EXCEPT
                !.commb_format = "HEADING_SPEED",
                !.heading_valid = IF heading_valid = 1 THEN 1 ELSE @,
                !.heading = IF heading_valid = 1 THEN heading ELSE @,
                !.heading_type = IF heading_valid = 1 THEN "HEADING_MAGNETIC" ELSE @,
                !.ias_valid = IF ias_valid = 1 THEN 1 ELSE @,
                !.ias = IF ias_valid = 1 THEN ias ELSE @,
                !.mach_valid = IF mach_valid = 1 THEN 1 ELSE @,
                !.mach = IF mach_valid = 1 THEN mach ELSE @,
                !.baro_rate_valid = IF baro_rate_valid = 1 THEN 1 ELSE @,
                !.baro_rate = IF baro_rate_valid = 1 THEN baro_rate ELSE @,
                !.geom_rate_valid = IF inertial_rate_valid = 1 THEN 1 ELSE @,
                !.geom_rate = IF inertial_rate_valid = 1 THEN inertial_rate ELSE @]
    IN  IF heading_valid = 0 \/ ias_valid = 0 \/ mach_valid = 0
           \/ (baro_rate_valid = 0 /\ inertial_rate_valid = 0)
        THEN Ret(0, m)
        ELSE IF ~heading_ok \/ ~ias_ok \/ ~mach_ok \/ ~baro_rate_ok \/ ~inertial_rate_ok
        THEN Ret(0, m)
        ELSE Ret(score, IF store THEN stored ELSE m)


\* mrar_source_t (dump1090.h): the values decodeBDS44 compares the source with
MRAR_SOURCE_INVALID == 0
MRAR_SOURCE_DMEDME == 3
MRAR_SOURCE_RESERVED == 5

\* a temperature range that leaves out its two ends
PlausibleSatExclusive(sat) == sat > -80 * 4 /\ sat < 60 * 4

\* comm_b.c:854: the range of a static air temperature, in quarter degrees C
PlausibleSat(sat) == sat >= -80 * 4 /\ sat <= 60 * 4

\* the score left as the fields add it up
CollisionGuardMissing(source, wind_valid, sat_valid, score) == score

\* comm_b.c:889-902: a DME/DME report with wind and temperature looks like a
\* GICB capability report, and is an MRAR only as a last resort
CollisionGuard(source, wind_valid, sat_valid, score) ==
    IF source = MRAR_SOURCE_DMEDME /\ wind_valid = 1 /\ sat_valid = 1 /\ score > 0
    THEN 1 ELSE score

\* comm_b.c:778 decodeBDS44
decodeBDS44(m, store) ==
    LET msg == m.MB
        source == getbits(msg, 1, 4)
        wind_valid == getbit(msg, 5)
        windspeed_raw == getbits(msg, 6, 14)
        winddir_raw == getbits(msg, 15, 23)
        sat_valid == getbit(msg, 24)
        sat_sign == getbit(msg, 25)
        sat_raw == getbits(msg, 26, 34)
        asp_valid == getbit(msg, 35)
        asp_raw == getbits(msg, 36, 46)
        turbulence_valid == getbit(msg, 47)
        turbulence_raw == getbits(msg, 48, 49)
        humidity_valid == getbit(msg, 50)
        humidity_raw == getbits(msg, 51, 56)
        wind_dir == IF wind_valid = 1 THEN winddir_raw * 180 ELSE 0
        wind_speed == IF wind_valid = 1 THEN windspeed_raw ELSE 0
        sat == IF sat_valid = 1
               THEN sat_raw - (IF sat_sign = 1 THEN 128 * 4 ELSE 0)
               ELSE 0
        asp == IF asp_valid = 1 THEN asp_raw ELSE 0
        turbulence == IF turbulence_valid = 1 THEN turbulence_raw ELSE 0
        humidity == IF humidity_valid = 1 THEN humidity_raw * 100 ELSE 0
        wind_ok == wind_valid = 1 => (windspeed_raw = 0 \/ wind_speed <= 250)
        sat_ok == sat_valid = 1 => (sat = 0 \/ PlausibleSat(sat))
        asp_ok == asp_valid = 1 => (asp >= 25 /\ asp <= 1100)
        sum ==
              (IF wind_valid = 1 THEN (IF windspeed_raw = 0 THEN 2 ELSE 19) ELSE 1)
            + (IF sat_valid = 1 THEN (IF sat = 0 THEN 2 ELSE 11) ELSE 1)
            + (IF asp_valid = 1 THEN 12 ELSE 1)
            + (IF turbulence_valid = 1 THEN 3 ELSE 1)
            + (IF humidity_valid = 1 THEN 7 ELSE 1)
        score == CollisionGuard(source, wind_valid, sat_valid, sum)
        stored ==
            [m EXCEPT
                !.commb_format = "MRAR",
                !.mrar_source_valid = 1,
                !.mrar_source = source,
                !.wind_valid = IF wind_valid = 1 THEN 1 ELSE @,
                !.wind_speed = IF wind_valid = 1 THEN wind_speed ELSE @,
                !.wind_dir = IF wind_valid = 1 THEN wind_dir ELSE @,
                !.temperature_valid = IF sat_valid = 1 THEN 1 ELSE @,
                !.temperature = IF sat_valid = 1 THEN sat ELSE @,
                !.pressure_valid = IF asp_valid = 1 THEN 1 ELSE @,
                !.pressure = IF asp_valid = 1 THEN asp ELSE @,
                !.turbulence_valid = IF turbulence_valid = 1 THEN 1 ELSE @,
                !.turbulence = IF turbulence_valid = 1 THEN turbulence ELSE @,
                !.humidity_valid = IF humidity_valid = 1 THEN 1 ELSE @,
                !.humidity = IF humidity_valid = 1 THEN humidity ELSE @]
    IN  IF source = MRAR_SOURCE_INVALID \/ source >= MRAR_SOURCE_RESERVED
        THEN Ret(0, m)
        ELSE IF wind_valid = 0 \/ sat_valid = 0 THEN Ret(0, m)
        ELSE IF asp_valid = 0 /\ asp_raw # 0 THEN Ret(0, m)
        ELSE IF turbulence_valid = 0 /\ turbulence_raw # 0 THEN Ret(0, m)
        ELSE IF humidity_valid = 0 /\ humidity_raw # 0 THEN Ret(0, m)
        ELSE IF ~wind_ok \/ ~sat_ok \/ ~asp_ok THEN Ret(0, m)
        ELSE Ret(score, IF store THEN stored ELSE m)

\* comm_b.c:968 an AC13 from an AC12: the M bit (zero) goes in after bit 6
InsertM(ac12) == ((ac12 \div 64) * 128) + (ac12 % 64)

\* decodeBDS05 scoring an airborne position like a full BDS5,0 or BDS6,0
decodeBDS05Modest(m, store) ==
    LET msg == m.MB
        typecode == getbits(msg, 1, 5)
        t_bit == getbit(msg, 21)
        ac12 == getbits(msg, 9, 20)
        ac13 == InsertM(ac12)
        lat == getbits(msg, 23, 39)
        lon == getbits(msg, 40, 56)
    IN  IF m.msgtype # 20 THEN Ret(0, m)
        ELSE IF typecode < 9 \/ typecode > 18 THEN Ret(0, m)
        ELSE IF t_bit = 1 THEN Ret(0, m)
        ELSE IF ac12 = 0 THEN Ret(0, m)
        ELSE IF m.AC # ac13 THEN Ret(0, m)
        ELSE IF lat = 0 \/ lon = 0 THEN Ret(0, m)
        ELSE Ret(56, IF store THEN [m EXCEPT !.commb_format = "AIRBORNE_POSITION"]
                     ELSE m)

\* comm_b.c:944 decodeBDS05
decodeBDS05(m, store) ==
    LET msg == m.MB
        typecode == getbits(msg, 1, 5)
        t_bit == getbit(msg, 21)
        ac12 == getbits(msg, 9, 20)
        ac13 == InsertM(ac12)
        lat == getbits(msg, 23, 39)
        lon == getbits(msg, 40, 56)
    IN  IF m.msgtype # 20 THEN Ret(0, m)
        ELSE IF typecode < 9 \/ typecode > 18 THEN Ret(0, m)
        ELSE IF t_bit = 1 THEN Ret(0, m)
        ELSE IF ac12 = 0 THEN Ret(0, m)
        ELSE IF m.AC # ac13 THEN Ret(0, m)
        ELSE IF lat = 0 \/ lon = 0 THEN Ret(0, m)
        ELSE Ret(100, IF store THEN [m EXCEPT !.commb_format = "AIRBORNE_POSITION"]
                      ELSE m)

---------------------------------------------------------------------------
\* comm_b.c:37 comm_b_decoders, by name
comm_b_decoders ==
    << "decodeEmptyResponse", "decodeBDS10", "decodeBDS20", "decodeBDS30",
       "decodeBDS17", "decodeBDS40", "decodeBDS50", "decodeBDS60",
       "decodeBDS44", "decodeBDS05" >>

\* comm_b.c:66 and 81: the call through a CommBDecoderFn pointer
CallDecoder(fn, m, store) ==
    CASE fn = "decodeEmptyResponse" -> decodeEmptyResponse(m, store)
      [] fn = "decodeBDS10" -> decodeBDS10(m, store)
      [] fn = "decodeBDS20" -> decodeBDS20(m, store)
      [] fn = "decodeBDS30" -> decodeBDS30(m, store)
      [] fn = "decodeBDS17" -> decodeBDS17(m, store)
      [] fn = "decodeBDS40" -> decodeBDS40(m, store)
      [] fn = "decodeBDS50" -> decodeBDS50(m, store)
      [] fn = "decodeBDS60" -> decodeBDS60(m, store)
      [] fn = "decodeBDS44" -> decodeBDS44(m, store)
      [] fn = "decodeBDS05" -> decodeBDS05(m, store)

(* comm_b.c:61-74: the scoring loop over the first n entries of a decoder  *)
(* table, from the locals' initial values.  bestDecoder "NULL" is the null *)
(* pointer; mm is the descriptor as the scoring calls leave it; scores are *)
(* the values the calls returned, in the order of the calls.               *)
RECURSIVE ScoreLoop(_, _, _)
ScoreLoop(table, n, m) ==
    IF n = 0
    THEN [bestScore |-> 0, bestDecoder |-> "NULL", ambiguous |-> 0,
          mm |-> m, scores |-> <<>>]
    ELSE LET s == ScoreLoop(table, n - 1, m)
             r == CallDecoder(table[n], s.mm, FALSE)
         IN  IF r.score > s.bestScore
             THEN [bestScore |-> r.score, bestDecoder |-> table[n], ambiguous |-> 0,
                   mm |-> r.mm, scores |-> Append(s.scores, r.score)]
             ELSE IF r.score = s.bestScore
             THEN [s EXCEPT !.ambiguous = 1, !.mm = r.mm,
                            !.scores = Append(s.scores, r.score)]
             ELSE [s EXCEPT !.mm = r.mm, !.scores = Append(s.scores, r.score)]

\* comm_b.c:76-85: what decodeCommB does with the outcome s of the scoring loop
Conclude(s) ==
    IF s.bestDecoder # "NULL"
    THEN IF s.ambiguous = 1
         THEN [mm |-> [s.mm EXCEPT !.commb_format = "AMBIGUOUS"],
               calls |-> Len(s.scores), scores |-> s.scores, scored |-> s.mm]
         ELSE [mm |-> CallDecoder(s.bestDecoder, s.mm, TRUE).mm,
               calls |-> Len(s.scores) + 1, scores |-> s.scores, scored |-> s.mm]
    ELSE [mm |-> [s.mm EXCEPT !.commb_format = "UNKNOWN"],
          calls |-> Len(s.scores), scores |-> s.scores, scored |-> s.mm]

\* decodeCommB letting a frame with UM set through to the candidates
ClassifyIgnoringUM(table, m) ==
    IF m.DR # 0 \/ m.correctedbits > 0
    THEN [mm |-> [m EXCEPT !.commb_format = "NOT_DECODED"],
          calls |-> 0, scores |-> <<>>, scored |-> m]
    ELSE Conclude(ScoreLoop(table, Len(table), m))

\* decodeCommB storing the best candidate whether or not another one tied
ClassifyIgnoringTies(table, m) ==
    IF m.DR # 0 \/ m.UM # 0 \/ m.correctedbits > 0
    THEN [mm |-> [m EXCEPT !.commb_format = "NOT_DECODED"],
          calls |-> 0, scores |-> <<>>, scored |-> m]
    ELSE Conclude([ScoreLoop(table, Len(table), m) EXCEPT !.ambiguous = 0])

(* comm_b.c:50-86 decodeCommB with a given decoder table: the descriptor   *)
(* it leaves, the number of decoder calls it made, the scores of the       *)
(* scoring loop and the descriptor as the scoring loop left it.            *)
Classify(table, m) ==
    IF m.DR # 0 \/ m.UM # 0 \/ m.correctedbits > 0
    THEN [mm |-> [m EXCEPT !.commb_format = "NOT_DECODED"],
          calls |-> 0, scores |-> <<>>, scored |-> m]
    ELSE Conclude(ScoreLoop(table, Len(table), m))

\* comm_b.c:50 decodeCommB(mm)
decodeCommB ==
    /\ pc = "call"
    /\ LET r == Classify(comm_b_decoders, mm)
       IN  /\ mm' = r.mm
           /\ ncalls' = r.calls
           /\ scores' = r.scores
           /\ scored' = r.scored
    /\ pc' = "return"
    /\ UNCHANGED <<entry, sv>>

---------------------------------------------------------------------------
(* Frame descriptors at the call.  A value field holds whatever the caller *)
(* left there; the marker Stale, which no decoder can write, stands for    *)
(* that content, so that a field the call wrote is one that is no longer   *)
(* Stale.  Image "fresh" is a descriptor with every validity flag clear,   *)
(* image "used" one with every flag set by an earlier decode.              *)

Stale == -(2 ^ 30)

Descriptor(msgtype, MB, DR, UM, correctedbits, AC, image) ==
    LET flag == IF image = "fresh" THEN 0 ELSE 1
    IN  [ msgtype |-> msgtype, MB |-> MB, DR |-> DR, UM |-> UM,
          correctedbits |-> correctedbits, AC |-> AC,
          commb_format |-> IF image = "fresh" THEN "UNKNOWN" ELSE "MRAR",
          callsign |-> <<>>, callsign_valid |-> flag,
          nav |-> [ mcp_altitude_valid |-> flag, mcp_altitude |-> Stale,
                    fms_altitude_valid |-> flag, fms_altitude |-> Stale,
                    qnh_valid |-> flag, qnh |-> Stale,
                    modes_valid |-> flag, modes |-> {"STALE"},
                    altitude_source |-> "STALE" ],
          roll_valid |-> flag, roll |-> Stale,
          heading_valid |-> flag, heading |-> Stale, heading_type |-> "STALE",
          gs_valid |-> flag,
          gs |-> [v0 |-> Stale, v2 |-> Stale, selected |-> Stale],
          track_rate_valid |-> flag, track_rate |-> Stale,
          tas_valid |-> flag, tas |-> Stale,
          ias_valid |-> flag, ias |-> Stale,
          mach_valid |-> flag, mach |-> Stale,
          baro_rate_valid |-> flag, baro_rate |-> Stale,
          geom_rate_valid |-> flag, geom_rate |-> Stale,
          mrar_source_valid |-> flag, mrar_source |-> Stale,
          wind_valid |-> flag, wind_speed |-> Stale, wind_dir |-> Stale,
          temperature_valid |-> flag, temperature |-> Stale,
          pressure_valid |-> flag, pressure |-> Stale,
          turbulence_valid |-> flag, turbulence |-> Stale,
          humidity_valid |-> flag, humidity |-> Stale ]

(* Encoding of a payload from its fields: a layout is a sequence of        *)
(* <<width, value>> pairs, first field first, 56 bits in all.              *)

BitsOf(w, v) == [k \in 1..w |-> (v \div (2 ^ (w - k))) % 2]

RECURSIVE LayoutBits(_)
LayoutBits(fields) ==
    IF fields = <<>> THEN <<>>
    ELSE BitsOf(Head(fields)[1], Head(fields)[2]) \o LayoutBits(Tail(fields))

Pack(fields) ==
    LET bits == LayoutBits(fields)
    IN  [b \in 1..7 |->
            128 * bits[8 * b - 7] + 64 * bits[8 * b - 6] + 32 * bits[8 * b - 5]
            + 16 * bits[8 * b - 4] + 8 * bits[8 * b - 3] + 4 * bits[8 * b - 2]
            + 2 * bits[8 * b - 1] + bits[8 * b]]

\* the raw count of a value v in units of lsb, rounded to the nearest count
Quantise(v, lsb) == (2 * v + lsb) \div (2 * lsb)

\* a field <<valid, value>> is a status bit and a value
Valid(f) == f[1] = 1

---------------------------------------------------------------------------
(* BDS4,0 structured values, encoded with the layout of the specification's *)
(* section 4.3: status and altitude of MCP and FMS (ft, LSB 16 ft), status  *)
(* and barometric setting (tenths of hPa; raw = setting - 800 hPa), eight   *)
(* reserved bits, the field at bits 48..51 (status, 3 bits), two reserved   *)
(* bits, the field at bits 54..56 (status, 2 bits).                         *)

Layout40(v) ==
    << <<1, v.mcp[1]>>, <<12, Quantise(v.mcp[2], 16)>>,
       <<1, v.fms[1]>>, <<12, Quantise(v.fms[2], 16)>>,
       <<1, v.qnh[1]>>, <<12, v.qnh[2] - 8000>>,
       <<8, v.reserved_1>>,
       <<1, v.f48[1]>>, <<3, v.f48[2]>>,
       <<2, v.reserved_2>>,
       <<1, v.f54[1]>>, <<2, v.f54[2]>> >>

\* altitudes: absent, 1000 and 50000 ft and their neighbours, mid-range values
AltAbsent == <<0, 0>>
AltInRange == { <<1, 1000>>, <<1, 1008>>, <<1, 12000>>, <<1, 12016>>,
                <<1, 12096>>, <<1, 37000>>, <<1, 50000>> }
AltOutOfRange == { <<1, 0>>, <<1, 992>>, <<1, 50016>>, <<0, 16>> }

QnhAbsent == <<0, 8000>>
QnhInRange == { <<1, 9000>>, <<1, 10128>>, <<1, 10132>>, <<1, 11000>> }
QnhOutOfRange == { <<1, 8000>>, <<1, 8999>>, <<1, 11001>>, <<0, 8001>> }

F48Clean == { <<0, 0>>, <<1, 0>>, <<1, 1>>, <<1, 2>>, <<1, 3>>, <<1, 4>>, <<1, 7>> }
F54Clean == { <<0, 0>>, <<1, 0>>, <<1, 1>>, <<1, 2>>, <<1, 3>> }

Value40(mcp, fms, qnh, r1, f48, r2, f54) ==
    [reg |-> "BDS40", mcp |-> mcp, fms |-> fms, qnh |-> qnh, reserved_1 |-> r1,
     f48 |-> f48, reserved_2 |-> r2, f54 |-> f54]

\* every field absent or within the ranges the specification documents
InRange40 ==
    { Value40(mcp, fms, qnh, 0, f48, 0, f54) :
        mcp \in AltInRange \cup {AltAbsent}, fms \in AltInRange \cup {AltAbsent},
        qnh \in QnhInRange \cup {QnhAbsent}, f48 \in F48Clean, f54 \in F54Clean }
    \ { Value40(AltAbsent, AltAbsent, QnhAbsent, 0, <<0, 0>>, 0, <<0, 0>>) }

\* one field out of range, or one reserved or absent field not zero
Defect40 ==
    LET base == { Value40(mcp, mcp, qnh, 0, f48, 0, f54) :
                    mcp \in {AltAbsent, <<1, 12000>>},
                    qnh \in {QnhAbsent, <<1, 10132>>},
                    f48 \in {<<0, 0>>, <<1, 3>>}, f54 \in {<<0, 0>>, <<1, 2>>} }
    IN  UNION { { [b EXCEPT !.mcp = x] : x \in AltOutOfRange }
                \cup { [b EXCEPT !.fms = x] : x \in AltOutOfRange }
                \cup { [b EXCEPT !.qnh = x] : x \in QnhOutOfRange }
                \cup { [b EXCEPT !.reserved_1 = x] : x \in {1, 128} }
                \cup { [b EXCEPT !.reserved_2 = x] : x \in {1, 2} }
                \cup { [b EXCEPT !.f48 = <<0, x>>] : x \in {1, 4} }
                \cup { [b EXCEPT !.f54 = <<0, x>>] : x \in {1, 2} }
              : b \in base }
    \cup { Value40(AltAbsent, AltAbsent, QnhAbsent, 0, <<0, 0>>, 0, <<0, 0>>) }

Values40 == InRange40 \cup Defect40

(* BDS5,0 structured values (layout of section 4.3): roll in 1/256 degree  *)
(* (LSB 45, the sign bit subtracts 90 degrees), track in 1/512 degree (LSB   *)
(* 90, the sign bit adds 180 degrees), ground speed and true airspeed in kt  *)
(* (LSB 2), track rate in 1/32 degree/s (the sign bit subtracts 16).  A      *)
(* signed field is <<status, value>> with the sign taken from the value.     *)

SignBit(v) == IF v < 0 THEN 1 ELSE 0

Layout50(v) ==
    << <<1, v.roll[1]>>, <<1, SignBit(v.roll[2])>>,
       <<9, Quantise(v.roll[2] + 90 * 256 * SignBit(v.roll[2]), 45)>>,
       <<1, v.track[1]>>, <<1, IF v.track[2] >= 180 * 512 THEN 1 ELSE 0>>,
       <<10, Quantise(v.track[2] % (180 * 512), 90)>>,
       <<1, v.gs[1]>>, <<10, Quantise(v.gs[2], 2)>>,
       <<1, v.track_rate[1]>>, <<1, SignBit(v.track_rate[2])>>,
       <<9, v.track_rate[2] + 512 * SignBit(v.track_rate[2])>>,
       <<1, v.tas[1]>>, <<10, Quantise(v.tas[2], 2)>>
    >>

Value50(roll, track, gs, track_rate, tas) ==
    [reg |-> "BDS50", roll |-> roll, track |-> track, gs |-> gs,
     track_rate |-> track_rate, tas |-> tas]

\* roll: level, 5.3 and 20 degrees either way, 39.9 degrees either way
RollInRange == { <<1, 0>>, <<1, 1350>>, <<1, -1350>>, <<1, 5130>>,
                 <<1, 10215>>, <<1, -10215>> }
\* 40.08 degrees either way, absent, absent with bits set
RollOutOfRange == { <<1, 10260>>, <<1, -10260>>, <<0, 0>>, <<0, 45>> }
TrackInRange == { <<1, 0>>, <<1, 60030>>, <<1, 150030>> }
TrackOutOfRange == { <<0, 0>>, <<0, 90>> }
SpeedInRange == { <<1, 50>>, <<1, 180>>, <<1, 250>>, <<1, 420>>, <<1, 700>> }
SpeedOutOfRange == { <<1, 0>>, <<1, 48>>, <<1, 702>>, <<0, 0>>, <<0, 2>> }
\* track rate: absent, none, 1, 3 and 10 degrees/s either way
TrackRateInRange == { <<0, 0>>, <<1, 0>>, <<1, 32>>, <<1, -32>>, <<1, 96>>,
                      <<1, -96>>, <<1, 320>>, <<1, -320>> }
TrackRateOutOfRange == { <<1, 321>>, <<1, -321>>, <<0, 1>>, <<0, -512>> }

InRange50 ==
    { Value50(roll, track, gs, track_rate, tas) :
        roll \in RollInRange, track \in TrackInRange, gs \in SpeedInRange,
        track_rate \in TrackRateInRange, tas \in SpeedInRange }

Defect50 ==
    LET base == { Value50(<<1, 1350>>, <<1, 60030>>, gs, track_rate, <<1, 250>>) :
                    gs \in {<<1, 250>>, <<1, 420>>},
                    track_rate \in {<<0, 0>>, <<1, 32>>} }
    IN  UNION { { [b EXCEPT !.roll = x] : x \in RollOutOfRange }
                \cup { [b EXCEPT !.track = x] : x \in TrackOutOfRange }
                \cup { [b EXCEPT !.gs = x] : x \in SpeedOutOfRange }
                \cup { [b EXCEPT !.track_rate = x] : x \in TrackRateOutOfRange }
                \cup { [b EXCEPT !.tas = x] : x \in SpeedOutOfRange }
              : b \in base }

Values50 == InRange50 \cup Defect50

(* BDS6,0 structured values (layout of section 4.3): heading in 1/512       *)
(* degree (LSB 90, the sign bit adds 180 degrees), IAS in kt, Mach in        *)
(* thousandths (LSB 4), barometric and inertial vertical rate in ft/min      *)
(* (LSB 32, the sign bit subtracts 16384).                                   *)

Layout60(v) ==
    << <<1, v.heading[1]>>, <<1, IF v.heading[2] >= 180 * 512 THEN 1 ELSE 0>>,
       <<10, Quantise(v.heading[2] % (180 * 512), 90)>>,
       <<1, v.ias[1]>>, <<10, v.ias[2]>>,
       <<1, v.mach[1]>>, <<10, Quantise(v.mach[2], 4)>>,
       <<1, v.baro_rate[1]>>, <<1, SignBit(v.baro_rate[2])>>,
       <<9, Quantise(v.baro_rate[2] + 16384 * SignBit(v.baro_rate[2]), 32)>>,
       <<1, v.inertial_rate[1]>>, <<1, SignBit(v.inertial_rate[2])>>,
       <<9, Quantise(v.inertial_rate[2] + 16384 * SignBit(v.inertial_rate[2]), 32)>>
    >>

Value60(heading, ias, mach, baro_rate, inertial_rate) ==
    [reg |-> "BDS60", heading |-> heading, ias |-> ias, mach |-> mach,
     baro_rate |-> baro_rate, inertial_rate |-> inertial_rate]

HeadingInRange == { <<1, 0>>, <<1, 60030>>, <<1, 150030>> }
HeadingOutOfRange == { <<0, 0>>, <<0, 90>> }
IasInRange == { <<1, 50>>, <<1, 250>>, <<1, 606>>, <<1, 700>> }
IasOutOfRange == { <<1, 0>>, <<1, 49>>, <<1, 701>>, <<0, 0>>, <<0, 1>> }
MachInRange == { <<1, 100>>, <<1, 500>>, <<1, 780>>, <<1, 900>> }
MachOutOfRange == { <<1, 0>>, <<1, 96>>, <<1, 904>>, <<0, 0>>, <<0, 4>> }
RateInRange == { <<0, 0>>, <<1, 0>>, <<1, 1024>>, <<1, -1024>>, <<1, 2048>>,
                 <<1, 5984>>, <<1, -5984>> }
RateOutOfRange == { <<1, 6016>>, <<1, -6016>>, <<0, 32>> }

InRange60 ==
    { Value60(heading, ias, mach, baro_rate, inertial_rate) :
        heading \in HeadingInRange, ias \in IasInRange, mach \in MachInRange,
        baro_rate \in RateInRange, inertial_rate \in RateInRange }
    \ { Value60(heading, ias, mach, <<0, 0>>, <<0, 0>>) :
        heading \in HeadingInRange, ias \in IasInRange, mach \in MachInRange }

Defect60 ==
    LET base == { Value60(<<1, 60030>>, <<1, 250>>, <<1, 780>>, baro_rate, inertial_rate) :
                    baro_rate \in {<<0, 0>>, <<1, 1024>>},
                    inertial_rate \in {<<0, 0>>, <<1, 1024>>} }
    IN  UNION { { [b EXCEPT !.heading = x] : x \in HeadingOutOfRange }
                \cup { [b EXCEPT !.ias = x] : x \in IasOutOfRange }
                \cup { [b EXCEPT !.mach = x] : x \in MachOutOfRange }
                \cup { [b EXCEPT !.baro_rate = x] : x \in RateOutOfRange }
                \cup { [b EXCEPT !.inertial_rate = x] : x \in RateOutOfRange }
              : b \in base }

Values60 == InRange60 \cup Defect60

(* BDS4,4 structured values (layout of section 4.3): source, wind status,   *)
(* speed (kt) and direction (1/256 degree, LSB 180), static air temperature  *)
(* in quarter degrees C (the sign bit subtracts 128 C), average static       *)
(* pressure in hPa, turbulence, humidity in 1/64 percent (LSB 100).          *)

Layout44(v) ==
    << <<4, v.source>>,
       <<1, v.wind[1]>>, <<9, v.wind[2]>>, <<9, Quantise(v.wind[3], 180)>>,
       <<1, v.sat[1]>>, <<1, SignBit(v.sat[2])>>,
       <<9, v.sat[2] + 512 * SignBit(v.sat[2])>>,
       <<1, v.asp[1]>>, <<11, v.asp[2]>>,
       <<1, v.turbulence[1]>>, <<2, v.turbulence[2]>>,
       <<1, v.humidity[1]>>, <<6, Quantise(v.humidity[2], 100)>>
    >>

Value44(source, wind, sat, asp, turbulence, humidity) ==
    [reg |-> "BDS44", source |-> source, wind |-> wind, sat |-> sat, asp |-> asp,
     turbulence |-> turbulence, humidity |-> humidity]

SourceInRange == { 1, 2, 3, 4 }
SourceOutOfRange == { 0, 5, 15 }
WindInRange == { <<1, 0, 0>>, <<1, 40, 23040>>, <<1, 250, 69120>> }
WindOutOfRange == { <<1, 251, 0>>, <<1, 511, 0>>, <<0, 0, 0>>, <<0, 40, 0>> }
\* 0, -56.5, 15, -80 and +60 degrees C
SatInRange == { <<1, 0>>, <<1, -226>>, <<1, 60>>, <<1, -320>>, <<1, 240>> }
SatOutOfRange == { <<1, -321>>, <<1, 241>>, <<0, 0>>, <<0, 4>> }
AspInRange == { <<0, 0>>, <<1, 25>>, <<1, 250>>, <<1, 1100>> }
AspOutOfRange == { <<1, 0>>, <<1, 24>>, <<1, 1101>>, <<0, 5>> }
TurbulenceInRange == { <<0, 0>>, <<1, 0>>, <<1, 2>> }
TurbulenceOutOfRange == { <<0, 1>> }
HumidityInRange == { <<0, 0>>, <<1, 0>>, <<1, 3200>> }
HumidityOutOfRange == { <<0, 100>> }

InRange44 ==
    { Value44(source, wind, sat, asp, turbulence, humidity) :
        source \in SourceInRange, wind \in WindInRange, sat \in SatInRange,
        asp \in AspInRange, turbulence \in TurbulenceInRange,
        humidity \in HumidityInRange }

Defect44 ==
    LET base == { Value44(source, <<1, 40, 23040>>, <<1, -226>>, asp, <<0, 0>>, <<0, 0>>) :
                    source \in {1, 3}, asp \in {<<0, 0>>, <<1, 250>>} }
    IN  UNION { { [b EXCEPT !.source = x] : x \in SourceOutOfRange }
                \cup { [b EXCEPT !.wind = x] : x \in WindOutOfRange }
                \cup { [b EXCEPT !.sat = x] : x \in SatOutOfRange }
                \cup { [b EXCEPT !.asp = x] : x \in AspOutOfRange }
                \cup { [b EXCEPT !.turbulence = x] : x \in TurbulenceOutOfRange }
                \cup { [b EXCEPT !.humidity = x] : x \in HumidityOutOfRange }
              : b \in base }

Values44 == InRange44 \cup Defect44

(* BDS1,7 structured values: the set of capability bits (1..24) that are   *)
(* set, and the 32 bits that follow them.                                    *)

Layout17(v) ==
    [n \in 1..24 |-> <<1, IF n \in v.caps THEN 1 ELSE 0>>]
    \o << <<16, 0>>, <<16, v.tail>> >>

Value17(caps, tail) == [reg |-> "BDS17", caps |-> caps, tail |-> tail]

\* bits 1..6: the extended squitter registers
EsCaps == { {}, {1, 2, 3, 4, 5}, {1, 2, 3, 4, 5, 6}, {3, 4, 5}, {3, 4, 5, 6}, {3}, {1} }
\* bits 10..14 and 20..22: the registers decodeBDS17 calls unlikely
UnlikelyCaps == { {}, {10}, {13}, {10, 11, 13}, {13, 14}, {20}, {10, 11, 12, 21, 22} }
\* bits 7, 9, 16 and 24
CommonCaps == SUBSET {7, 9, 16, 24}

\* any capabilities but none at all (that payload is the empty response)
InRange17 ==
    { Value17(es \cup unlikely \cup common, 0) :
        es \in EsCaps, unlikely \in UnlikelyCaps, common \in CommonCaps }
    \ { Value17({}, 0) }

Defect17 ==
    { Value17(es \cup common, tail) :
        es \in {{}, {1, 2, 3, 4, 5}}, common \in {{7}, {7, 16, 24}}, tail \in {1, 32768} }

(* BDS2,0 structured values: the eight 6-bit character codes, after the     *)
(* identifier byte.                                                          *)

Layout20(v) ==
    << <<8, v.id>> >> \o [i \in 1..8 |-> <<6, v.chars[i]>>]

Value20(id, chars) == [reg |-> "BDS20", id |-> id, chars |-> chars]

\* 'S' 'X' 'B' 'C' '5' '8' ' ' ' ' and 'Z' '9' 'A' '0' ' ' ' ' ' ' ' '
SampleCallsigns == { <<19, 24, 2, 3, 53, 56, 32, 32>>, <<26, 57, 1, 48, 32, 32, 32, 32>> }

\* every way to pad with '@' (code 0) a callsign of 'A's (code 1)
PaddedCallsigns == [1..8 -> {0, 1}]

\* a callsign of 'A's, or of '@'s, with any code at one place
OneCodeCallsigns ==
    { [i \in 1..8 |-> IF i = k THEN c ELSE fill] : k \in 1..8, c \in 0..63, fill \in {0, 1} }

InRange20 ==
    { Value20(32, chars) : chars \in SampleCallsigns \cup PaddedCallsigns }

Other20 ==
    { Value20(32, chars) : chars \in OneCodeCallsigns }
    \cup { Value20(id, chars) : id \in {33, 0, 160}, chars \in SampleCallsigns }

(* Payloads that start with a register identifier byte: 0x00, 0x40, 0x50,   *)
(* 0x60 (empty responses), 0x10, 0x20, 0x30, and 0x70 (none of them), then   *)
(* bits 9..16 and bits 17..56.                                               *)

LayoutId(v) == << <<8, v.id>>, <<8, v.b2>>, <<20, v.hi>>, <<20, v.lo>> >>

ValueId(id, b2, hi, lo) == [reg |-> "ID", id |-> id, b2 |-> b2, hi |-> hi, lo |-> lo]

ValuesId ==
    { ValueId(id, b2, hi, lo) :
        id \in {0, 16, 32, 48, 64, 80, 96, 112},
        b2 \in {0, 128, 64, 4, 131},
        hi \in {0, 1, 524288}, lo \in {0, 1} }

(* BDS0,5 structured values: type code, surveillance status and antenna     *)
(* flag, AC12, the T and F bits, 17 bits of latitude and of longitude.       *)

Layout05(v) ==
    << <<5, v.typecode>>, <<3, v.ss>>, <<12, v.ac12>>, <<1, v.t>>, <<1, v.f>>,
       <<17, v.lat>>, <<17, v.lon>> >>

Value05(typecode, ss, ac12, t, f, lat, lon) ==
    [reg |-> "BDS05", typecode |-> typecode, ss |-> ss, ac12 |-> ac12, t |-> t,
     f |-> f, lat |-> lat, lon |-> lon]

InRange05 ==
    { Value05(typecode, ss, ac12, 0, f, lat, lon) :
        typecode \in {9, 11, 16, 18}, ss \in {0, 5}, ac12 \in {56, 195, 1445, 4095},
        f \in {0, 1}, lat \in {1, 93000}, lon \in {51372, 131071} }

Defect05 ==
    LET base == { Value05(typecode, 0, ac12, 0, 0, 93000, 51372) :
                    typecode \in {9, 18}, ac12 \in {195, 1445} }
    IN  UNION { { [b EXCEPT !.typecode = x] : x \in {0, 8, 19, 31} }
                \cup { [b EXCEPT !.t = 1], [b EXCEPT !.ac12 = 0],
                       [b EXCEPT !.lat = 0], [b EXCEPT !.lon = 0] }
              : b \in base }

---------------------------------------------------------------------------
\* the payload of a structured value
Layout(v) ==
    CASE v.reg = "BDS40" -> Layout40(v)
      [] v.reg = "BDS50" -> Layout50(v)
      [] v.reg = "BDS60" -> Layout60(v)
      [] v.reg = "BDS44" -> Layout44(v)
      [] v.reg = "BDS17" -> Layout17(v)
      [] v.reg = "BDS20" -> Layout20(v)
      [] v.reg = "BDS05" -> Layout05(v)
      [] v.reg = "ID" -> LayoutId(v)

\* a sample: a payload, the value it encodes, whether that value is in range
Samples(values, inrange) ==
    { [MB |-> Pack(Layout(v)), sv |-> [inrange |-> inrange, v |-> v]] : v \in values }

\* a frame: the enclosing reply's fields, the payload and what it encodes
Frame(msgtype, DR, UM, correctedbits, AC, image, s) ==
    [msgtype |-> msgtype, MB |-> s.MB, DR |-> DR, UM |-> UM,
     correctedbits |-> correctedbits, AC |-> AC, image |-> image, sv |-> s.sv]

\* a DF20 reply with DR = UM = 0 and no corrected bit, in a fresh descriptor
Plain(s, AC) == Frame(20, 0, 0, 0, AC, "fresh", s)

\* the AC13 that decodeBDS05 would accept with this payload
MatchingAC(MB) == InsertM(getbits(MB, 9, 20))

InitWith(frames) ==
    \E f \in frames :
        /\ mm = Descriptor(f.msgtype, f.MB, f.DR, f.UM, f.correctedbits, f.AC, f.image)
        /\ entry = mm
        /\ sv = f.sv
        /\ ncalls = 0
        /\ scores = <<>>
        /\ scored = mm
        /\ pc = "call"

Next == decodeCommB

---------------------------------------------------------------------------
(* Spec: frames of every kind.  The bounds give the largest DR, UM and     *)
(* correctedbits of an enclosing reply.                                    *)

MaxDR == 1
MaxUM == 1
MaxCorrected == 1

\* BDS4,0 values with the fields at bits 48..56 absent or both present
Thin40 == { v \in InRange40 : v.f48 \in {<<0, 0>>, <<1, 3>>} /\ v.f54 \in {<<0, 0>>, <<1, 2>>} }

InRangeSamples ==
    Samples(Thin40 \cup InRange50 \cup InRange60 \cup InRange44 \cup InRange17
            \cup InRange20, TRUE)

OtherSamples ==
    Samples(Defect40 \cup Defect50 \cup Defect60 \cup Defect44 \cup Defect17
            \cup Defect05 \cup ValuesId, FALSE)

\* one or two values of each kind, for the replies that vary DR, UM, the
\* corrected bits, the reply type and the descriptor's earlier content
GateValues ==
    { Value40(<<1, 12000>>, <<1, 12000>>, <<1, 10132>>, 0, <<1, 3>>, 0, <<1, 2>>),
      Value40(<<1, 12016>>, <<1, 12096>>, <<1, 10128>>, 0, <<0, 0>>, 0, <<0, 0>>),
      Value50(<<1, 1350>>, <<1, 60030>>, <<1, 420>>, <<1, 32>>, <<1, 420>>),
      Value50(<<1, 1350>>, <<1, 150030>>, <<1, 250>>, <<1, 32>>, <<1, 180>>),
      Value60(<<1, 60030>>, <<1, 250>>, <<1, 780>>, <<1, 1024>>, <<1, 1024>>),
      Value44(1, <<1, 40, 23040>>, <<1, -226>>, <<1, 250>>, <<1, 2>>, <<1, 3200>>),
      Value44(3, <<1, 40, 23040>>, <<1, 0>>, <<0, 0>>, <<0, 0>>, <<0, 0>>),
      Value17({1, 2, 3, 4, 5, 7, 16, 24}, 0),
      Value17({1, 10, 11}, 0),
      Value20(32, <<19, 24, 2, 3, 53, 56, 32, 32>>),
      Value20(32, <<0, 0, 0, 0, 0, 0, 0, 0>>),
      Value20(32, <<1, 1, 27, 1, 1, 1, 1, 1>>),
      Value05(11, 0, 195, 0, 0, 93000, 51372),
      Value05(9, 0, 1445, 0, 0, 93000, 51372),
      ValueId(0, 0, 0, 0), ValueId(16, 0, 1, 1), ValueId(48, 131, 1, 1),
      ValueId(112, 0, 0, 0), ValueId(96, 0, 0, 0), ValueId(64, 0, 0, 1) }

\* the replies that may carry a payload
Replies(s) ==
    { Frame(msgtype, DR, UM, correctedbits, MatchingAC(s.MB), image, s) :
        msgtype \in {20, 21}, DR \in 0..MaxDR, UM \in 0..MaxUM,
        correctedbits \in 0..MaxCorrected, image \in {"fresh", "used"} }

Frames ==
    { Plain(s, 0) : s \in InRangeSamples \cup OtherSamples }
    \cup { Plain(s, MatchingAC(s.MB)) : s \in Samples(InRange05, TRUE) }
    \cup { Plain(s, MatchingAC(s.MB)) : s \in Samples(Defect05, FALSE) }
    \cup { Plain(s, 0) : s \in Samples(InRange05, FALSE) }
    \cup UNION { Replies(s) : s \in Samples(GateValues, FALSE) }

Init == InitWith(Frames)

Spec == Init /\ [][Next]_vars

---------------------------------------------------------------------------
(* SpecSample: ungated frames only, a few of each kind, in a fresh and in  *)
(* a used descriptor.                                                      *)

Few40 ==
    { v \in Thin40 : /\ v.mcp[2] \in {0, 12000, 12016}
                     /\ v.fms[2] \in {0, 12000, 12096}
                     /\ v.qnh[2] \in {8000, 10128} }
Few50 ==
    { v \in InRange50 : /\ v.roll[2] \in {1350, -10215}
                        /\ v.track[2] = 60030
                        /\ v.gs[2] \in {250, 420}
                        /\ v.tas[2] = 250 }
Few60 ==
    { v \in InRange60 : /\ v.heading[2] \in {60030, 150030}
                        /\ v.ias[2] = 250
                        /\ v.mach[2] = 780 }
Few44 ==
    { v \in InRange44 : /\ v.wind[2] = 40
                        /\ v.sat[2] \in {0, -226}
                        /\ v.asp[2] \in {0, 250} }

FramesSample ==
    { Frame(20, 0, 0, 0, MatchingAC(s.MB), image, s) :
        s \in OtherSamples
              \cup Samples(Few40 \cup Few50 \cup Few60 \cup Few44 \cup InRange17
                           \cup InRange20 \cup InRange05 \cup GateValues, TRUE),
        image \in {"fresh", "used"} }

InitSample == InitWith(FramesSample)

SpecSample == InitSample /\ [][Next]_vars

(* Spec40: every BDS4,0 value of the family, in a plain frame.             *)

Init40 == InitWith({ Plain(s, 0) : s \in Samples(Values40, FALSE) })

Spec40 == Init40 /\ [][Next]_vars

(* Spec20: payloads with the BDS2,0 identifier and any characters, and     *)
(* payloads with another first byte, in DF20 and DF21 replies, fresh and   *)
(* used descriptors.                                                       *)

Frames20 ==
    { Frame(msgtype, 0, 0, 0, 0, image, s) :
        s \in Samples(InRange20 \cup Other20, FALSE),
        msgtype \in {20, 21}, image \in {"fresh", "used"} }

Init20 == InitWith(Frames20)

Spec20 == Init20 /\ [][Next]_vars

(* Spec44: BDS4,4 values from a DME/DME or an INS source whose wind bits   *)
(* cover capability bits 6..23 of a GICB report; temperature zero and      *)
(* nothing after it leaves bits 25..56 clear, as decodeBDS17 wants them.   *)

WindSpeeds44 == { 0, 2, 16, 26, 64, 128, 130, 136, 152, 153, 154, 250, 251 }
WindDirs44 == { 0, 128, 129, 132, 136, 144, 384 }

Values44Gicb ==
    { Value44(source, <<1, speed, dir * 180>>, sat, asp, <<0, 0>>, <<0, 0>>) :
        source \in {1, 3}, speed \in WindSpeeds44, dir \in WindDirs44,
        sat \in {<<1, 0>>, <<1, -226>>, <<0, 0>>},
        asp \in {<<0, 0>>, <<1, 250>>, <<0, 5>>} }

Frames44 ==
    { Frame(msgtype, 0, 0, 0, 0, "fresh", s) :
        s \in Samples(Values44Gicb, FALSE), msgtype \in {20, 21} }

Init44 == InitWith(Frames44)

Spec44 == Init44 /\ [][Next]_vars

(* Spec05: BDS0,5 values in DF20 and DF21 replies whose AC matches, is     *)
(* zero, or is the AC12 itself; and the in-range values of the other       *)
(* registers in a DF20 reply whose AC matches bits 9..20 of the payload.   *)

Replies05(s) ==
    { Frame(msgtype, 0, 0, 0, AC, "fresh", s) :
        msgtype \in {20, 21},
        AC \in {MatchingAC(s.MB), 0, getbits(s.MB, 9, 20)} }

Frames05 ==
    UNION { Replies05(s) : s \in Samples(InRange05 \cup Defect05, FALSE) }
    \cup { Plain(s, MatchingAC(s.MB)) : s \in InRangeSamples \cup Samples(ValuesId, FALSE) }

Init05 == InitWith(Frames05)

Spec05 == Init05 /\ [][Next]_vars

---------------------------------------------------------------------------
(* What the properties below talk about.                                   *)

Returned == pc = "return"

\* the frame was one decodeCommB does not look into
Gated == entry.DR # 0 \/ entry.UM # 0 \/ entry.correctedbits > 0

Ungated == Returned /\ ~Gated

Result == mm.commb_format

Candidates == { comm_b_decoders[i] : i \in 1..Len(comm_b_decoders) }

\* the score the scoring loop got from a candidate
ScoreOf(fn) ==
    scores[CHOOSE i \in 1..Len(comm_b_decoders) : comm_b_decoders[i] = fn]

\* the tag a candidate's store pass leaves on the frame at hand
StoredTag(fn) == CallDecoder(fn, entry, TRUE).mm.commb_format

\* every validity flag of a descriptor
Flags(m) ==
    << m.callsign_valid, m.nav.mcp_altitude_valid, m.nav.fms_altitude_valid,
       m.nav.qnh_valid, m.nav.modes_valid, m.roll_valid, m.heading_valid,
       m.gs_valid, m.track_rate_valid, m.tas_valid, m.ias_valid, m.mach_valid,
       m.baro_rate_valid, m.geom_rate_valid, m.mrar_source_valid, m.wind_valid,
       m.temperature_valid, m.pressure_valid, m.turbulence_valid,
       m.humidity_valid >>

AllClear(m) == \A i \in 1..Len(Flags(m)) : Flags(m)[i] = 0

---------------------------------------------------------------------------
(* C1: when DR is not 0, or UM is not 0, or correctedbits is above 0,      *)
(* decodeCommB calls no candidate decoder, sets commb_format to            *)
(* NOT_DECODED and leaves every other field of the descriptor as it was.   *)
GatedFrameNotDecoded ==
    (Returned /\ Gated) =>
        /\ ncalls = 0
        /\ scores = <<>>
        /\ mm = [entry EXCEPT !.commb_format = "NOT_DECODED"]

\* a reply with only UM set, in a used descriptor, around a BDS2,0 payload
GatedFrameReturned ==
    /\ Returned
    /\ entry.UM # 0 /\ entry.DR = 0 /\ entry.correctedbits = 0
    /\ entry.MB[1] = 32
    /\ entry.callsign_valid = 1
    /\ Result = "NOT_DECODED"

---------------------------------------------------------------------------
(* C2: for an ungated frame the result depends on the ten scores only: it  *)
(* is the tag of the one candidate with the highest score when that score  *)
(* is positive and no other candidate reaches it, AMBIGUOUS exactly when   *)
(* two or more candidates share a positive highest score, UNKNOWN exactly  *)
(* when no candidate scores above zero; and decodeCommB with the decoder   *)
(* table in another order leaves the same descriptor.                      *)

HighestScore == CHOOSE x \in { scores[i] : i \in 1..Len(scores) } :
                    \A i \in 1..Len(scores) : scores[i] <= x

Winners == { fn \in Candidates : ScoreOf(fn) = HighestScore }

Reverse(table) == [i \in 1..Len(table) |-> table[Len(table) + 1 - i]]

Rotate(table, k) == [i \in 1..Len(table) |-> table[((i + k - 1) % Len(table)) + 1]]

\* the table in other orders: its rotations, and the rotations of its reverse
OtherOrders ==
    { Rotate(comm_b_decoders, k) : k \in 1..(Len(comm_b_decoders) - 1) }
    \cup { Rotate(Reverse(comm_b_decoders), k) : k \in {0, 3, 7} }

ResultFromScores ==
    Ungated =>
        /\ Len(scores) = Len(comm_b_decoders)
        /\ (Result = "UNKNOWN") <=> (HighestScore <= 0)
        /\ (Result = "AMBIGUOUS") <=> (HighestScore > 0 /\ Cardinality(Winners) >= 2)
        /\ (HighestScore > 0 /\ Cardinality(Winners) = 1)
               <=> (\E fn \in Winners : Result = StoredTag(fn)
                                         /\ Result \notin {"UNKNOWN", "AMBIGUOUS"})
        /\ \A table \in OtherOrders : Classify(table, entry).mm = mm

\* two candidates share the highest score, and it is positive
TieAtHighestScore ==
    /\ Ungated
    /\ HighestScore > 0
    /\ Cardinality(Winners) >= 2
    /\ Result = "AMBIGUOUS"

---------------------------------------------------------------------------
(* C3: a candidate called with store = false leaves the descriptor as it   *)
(* was, whatever the payload; no candidate call, storing or not, changes   *)
(* the seven bytes of MB; so when the result is UNKNOWN or AMBIGUOUS the   *)
(* descriptor differs from the one at the call in commb_format only.       *)
ScoringPassWritesNothing ==
    Returned =>
        /\ \A fn \in Candidates :
              /\ CallDecoder(fn, entry, FALSE).mm = entry
              /\ CallDecoder(fn, entry, TRUE).mm.MB = entry.MB
        /\ scored = entry
        /\ mm.MB = entry.MB
        /\ Result \in {"UNKNOWN", "AMBIGUOUS"}
               => mm = [entry EXCEPT !.commb_format = Result]

\* a used descriptor comes back AMBIGUOUS after ten scoring calls
AmbiguousAfterScoring ==
    /\ Returned
    /\ ncalls = Len(comm_b_decoders)
    /\ entry.commb_format = "MRAR"
    /\ Result = "AMBIGUOUS"
    /\ \E fn \in Candidates : ScoreOf(fn) > 0 /\ CallDecoder(fn, entry, TRUE).mm # entry

---------------------------------------------------------------------------
(* C4: from a descriptor with every validity flag clear, each flag is set  *)
(* at the return exactly when the value that goes with it was written: no  *)
(* value without its flag, no flag without its value.  A written value is  *)
(* one that no longer holds what the caller left there.                    *)

\* each flag with the test that a value of it was written
FlagAndValue(m) ==
    << <<m.callsign_valid, m.callsign # entry.callsign>>,
       <<m.nav.mcp_altitude_valid, m.nav.mcp_altitude # Stale>>,
       <<m.nav.fms_altitude_valid, m.nav.fms_altitude # Stale>>,
       <<m.nav.qnh_valid, m.nav.qnh # Stale>>,
       <<m.nav.modes_valid, m.nav.modes # entry.nav.modes>>,
       <<m.roll_valid, m.roll # Stale>>,
       <<m.heading_valid, m.heading # Stale>>,
       <<m.gs_valid, m.gs.v0 # Stale>>,
       <<m.gs_valid, m.gs.v2 # Stale>>,
       <<m.gs_valid, m.gs.selected # Stale>>,
       <<m.track_rate_valid, m.track_rate # Stale>>,
       <<m.tas_valid, m.tas # Stale>>,
       <<m.ias_valid, m.ias # Stale>>,
       <<m.mach_valid, m.mach # Stale>>,
       <<m.baro_rate_valid, m.baro_rate # Stale>>,
       <<m.geom_rate_valid, m.geom_rate # Stale>>,
       <<m.mrar_source_valid, m.mrar_source # Stale>>,
       <<m.wind_valid, m.wind_speed # Stale>>,
       <<m.wind_valid, m.wind_dir # Stale>>,
       <<m.temperature_valid, m.temperature # Stale>>,
       <<m.pressure_valid, m.pressure # Stale>>,
       <<m.turbulence_valid, m.turbulence # Stale>>,
       <<m.humidity_valid, m.humidity # Stale>> >>

FlagIffValue ==
    (Returned /\ AllClear(entry)) =>
        \A i \in 1..Len(FlagAndValue(mm)) :
            /\ FlagAndValue(mm)[i][1] \in {0, 1}
            /\ (FlagAndValue(mm)[i][1] = 1) <=> FlagAndValue(mm)[i][2]

\* an MRAR was stored with wind and temperature but no pressure
SomeFlagsSet ==
    /\ Returned /\ AllClear(entry)
    /\ Result = "MRAR"
    /\ mm.wind_valid = 1 /\ mm.wind_dir # Stale
    /\ mm.pressure_valid = 0 /\ mm.pressure = Stale
    /\ mm.humidity_valid = 1

---------------------------------------------------------------------------
(* C5 as stated: every value within the documented ranges of its register, *)
(* encoded with the documented layout and handed to decodeCommB in an      *)
(* ungated frame, comes back with the register's own tag and with its      *)
(* numeric fields within one LSB of the encoded ones.                      *)

OwnDecoder(reg) ==
    CASE reg = "BDS40" -> "decodeBDS40"
      [] reg = "BDS50" -> "decodeBDS50"
      [] reg = "BDS60" -> "decodeBDS60"
      [] reg = "BDS44" -> "decodeBDS44"
      [] reg = "BDS17" -> "decodeBDS17"
      [] reg = "BDS20" -> "decodeBDS20"
      [] reg = "BDS05" -> "decodeBDS05"

OwnTag(reg) ==
    CASE reg = "BDS40" -> "VERTICAL_INTENT"
      [] reg = "BDS50" -> "TRACK_TURN"
      [] reg = "BDS60" -> "HEADING_SPEED"
      [] reg = "BDS44" -> "MRAR"
      [] reg = "BDS17" -> "GICB_CAPS"
      [] reg = "BDS20" -> "AIRCRAFT_IDENT"
      [] reg = "BDS05" -> "AIRBORNE_POSITION"

\* a field <<status, value>> came back: flagged and within lsb when it was
\* sent as valid, not flagged when it was not
Came(f, flag, value, lsb) ==
    IF Valid(f) THEN flag = 1 /\ Abs(value - f[2]) <= lsb ELSE flag = 0

Recovered(v, m) ==
    CASE v.reg = "BDS40" ->
            /\ Came(v.mcp, m.nav.mcp_altitude_valid, m.nav.mcp_altitude, 16)
            /\ Came(v.fms, m.nav.fms_altitude_valid, m.nav.fms_altitude, 16)
            /\ Came(v.qnh, m.nav.qnh_valid, m.nav.qnh, 1)
      [] v.reg = "BDS50" ->
            /\ Came(v.roll, m.roll_valid, m.roll, 45)
            /\ Came(v.track, m.heading_valid, m.heading, 90)
            /\ Came(v.gs, m.gs_valid, m.gs.selected, 2)
            /\ Came(v.track_rate, m.track_rate_valid, m.track_rate, 1)
            /\ Came(v.tas, m.tas_valid, m.tas, 2)
      [] v.reg = "BDS60" ->
            /\ Came(v.heading, m.heading_valid, m.heading, 90)
            /\ Came(v.ias, m.ias_valid, m.ias, 1)
            /\ Came(v.mach, m.mach_valid, m.mach, 4)
            /\ Came(v.baro_rate, m.baro_rate_valid, m.baro_rate, 32)
            /\ Came(v.inertial_rate, m.geom_rate_valid, m.geom_rate, 32)
      [] v.reg = "BDS44" ->
            /\ m.mrar_source_valid = 1 /\ m.mrar_source = v.source
            /\ Came(<<v.wind[1], v.wind[2]>>, m.wind_valid, m.wind_speed, 1)
            /\ Came(<<v.wind[1], v.wind[3]>>, m.wind_valid, m.wind_dir, 180)
            /\ Came(v.sat, m.temperature_valid, m.temperature, 1)
            /\ Came(v.asp, m.pressure_valid, m.pressure, 1)
            /\ Came(v.turbulence, m.turbulence_valid, m.turbulence, 0)
            /\ Came(v.humidity, m.humidity_valid, m.humidity, 100)
      [] OTHER -> TRUE

OwnCandidateHighest ==
    LET own == OwnDecoder(sv.v.reg)
    IN  /\ ScoreOf(own) > 0
        /\ \A fn \in Candidates \ {own} : ScoreOf(fn) < ScoreOf(own)

---------------------------------------------------------------------------
(* C6: in an ungated DF20 reply whose payload has a type code (bits 1..5)  *)
(* of 9..18, bit 21 clear, a nonzero AC12 (bits 9..20) that with a zero M  *)
(* bit inserted equals the reply's AC, and nonzero bits 23..39 and 40..56, *)
(* the BDS0,5 candidate scores 100, the result is AIRBORNE_POSITION and    *)
(* nothing but commb_format is written; every other candidate scores       *)
(* below 80 on every payload; in a DF21 reply the BDS0,5 candidate scores  *)
(* 0.                                                                      *)

LooksLikeAirbornePosition ==
    LET ac12 == getbits(entry.MB, 9, 20)
    IN  /\ entry.msgtype = 20
        /\ getbits(entry.MB, 1, 5) \in 9..18
        /\ getbit(entry.MB, 21) = 0
        /\ ac12 # 0
        /\ entry.AC = 2 * (ac12 - (ac12 % 64)) + (ac12 % 64)
        /\ getbits(entry.MB, 23, 39) # 0
        /\ getbits(entry.MB, 40, 56) # 0

AirbornePositionDominates ==
    Ungated =>
        /\ \A fn \in Candidates \ {"decodeBDS05"} : ScoreOf(fn) < 80
        /\ LooksLikeAirbornePosition =>
              /\ ScoreOf("decodeBDS05") = 100
              /\ mm = [entry EXCEPT !.commb_format = "AIRBORNE_POSITION"]
        /\ entry.msgtype = 21 => ScoreOf("decodeBDS05") = 0

\* a payload that is a full BDS5,0 as well came back as an airborne position
PositionBeatsTrackTurn ==
    /\ Ungated
    /\ LooksLikeAirbornePosition
    /\ ScoreOf("decodeBDS50") = 56
    /\ Result = "AIRBORNE_POSITION"

---------------------------------------------------------------------------
(* C7 as stated: on a payload the BDS4,4 candidate accepts with a DME/DME  *)
(* source and wind and temperature valid, its score is 1, and whenever     *)
(* the BDS1,7 candidate scores above zero on it the result is GICB_CAPS.   *)

\* the BDS4,4 value passes every structural and range check
Passes44(v) ==
    /\ v.source \in 1..4
    /\ Valid(v.wind) /\ v.wind[2] <= 250
    /\ Valid(v.sat) /\ v.sat[2] >= -80 * 4 /\ v.sat[2] <= 60 * 4
    /\ IF Valid(v.asp) THEN v.asp[2] >= 25 /\ v.asp[2] <= 1100 ELSE v.asp[2] = 0
    /\ Valid(v.turbulence) \/ v.turbulence[2] = 0
    /\ Valid(v.humidity) \/ v.humidity[2] = 0

DmeDmeAccepted == Ungated /\ Passes44(sv.v) /\ sv.v.source = MRAR_SOURCE_DMEDME

GicbPreferredWhenPositive ==
    DmeDmeAccepted =>
        /\ ScoreOf("decodeBDS44") = 1
        /\ ScoreOf("decodeBDS17") > 0 => Result = "GICB_CAPS"

(* C7, amended: the BDS4,4 score on such a payload is 1; the result is     *)
(* GICB_CAPS when the BDS1,7 candidate scores above 1, AMBIGUOUS when it   *)
(* scores exactly 1, and MRAR when it scores 0 or less.                    *)
GicbPreferredWhenAboveOne ==
    DmeDmeAccepted =>
        /\ ScoreOf("decodeBDS44") = 1
        /\ ScoreOf("decodeBDS17") > 1 => Result = "GICB_CAPS"
        /\ ScoreOf("decodeBDS17") = 1 => Result = "AMBIGUOUS"
        /\ ScoreOf("decodeBDS17") < 1 => Result = "MRAR"

\* a DME/DME report that is a likely capability report came back as GICB_CAPS
GicbOverMrar ==
    /\ DmeDmeAccepted
    /\ sv.v.wind[2] > 0
    /\ ScoreOf("decodeBDS17") > 1
    /\ Result = "GICB_CAPS"

---------------------------------------------------------------------------
(* C8: in an ungated frame whose payload starts with 0x20 and whose eight  *)
(* 6-bit characters are each a letter (codes 1..26), a digit (48..57), a   *)
(* space (32) or '@' (0), the result is AIRCRAFT_IDENT and the BDS2,0      *)
(* score is 8 plus 6 for each letter, digit or space; the callsign is      *)
(* written and callsign_valid set exactly when no character is '@', else   *)
(* both stay as they were.  With any other character the BDS2,0 candidate  *)
(* scores 0.                                                               *)

LetterDigitSpace(c) == c \in 1..26 \/ c \in 48..57 \/ c = 32

\* the character of a 6-bit code, as its ASCII code
Ascii(c) == IF c \in 0..31 THEN 64 + c ELSE c

IdentWithPadding ==
    (Ungated /\ sv.v.id = 32) =>
        LET chars == sv.v.chars
            pad == { i \in 1..8 : chars[i] = 0 }
            good == { i \in 1..8 : LetterDigitSpace(chars[i]) }
        IN  IF pad \cup good = 1..8
            THEN /\ Result = "AIRCRAFT_IDENT"
                 /\ ScoreOf("decodeBDS20") = 8 + 6 * Cardinality(good)
                 /\ IF pad = {}
                    THEN /\ mm.callsign_valid = 1
                         /\ mm.callsign = [i \in 1..8 |-> Ascii(chars[i])]
                    ELSE /\ mm.callsign_valid = entry.callsign_valid
                         /\ mm.callsign = entry.callsign
                 /\ mm = [entry EXCEPT !.commb_format = Result,
                                       !.callsign = mm.callsign,
                                       !.callsign_valid = mm.callsign_valid]
            ELSE ScoreOf("decodeBDS20") = 0

\* a callsign with some but not all characters '@', in a fresh descriptor
PaddedIdentReturned ==
    /\ Ungated /\ sv.v.id = 32
    /\ sv.v.chars[1] = 1 /\ sv.v.chars[4] = 0 /\ sv.v.chars[8] = 1
    /\ entry.callsign_valid = 0
    /\ Result = "AIRCRAFT_IDENT"
    /\ mm.callsign_valid = 0
    /\ ScoreOf("decodeBDS20") \in 14..50

---------------------------------------------------------------------------
(* The BDS4,0 properties speak of a value v and of the payload it encodes: *)
(* MCP and FMS altitude fields with raw = altitude / 16, a QNH field with  *)
(* raw = tenths of hPa above 800 hPa, the field f48 (status bit 48, raw    *)
(* bits 49..51) and the field f54 (status bit 54, raw bits 55..56).        *)

RawAltitude(f) == Quantise(f[2], 16)

RawQnh(f) == f[2] - 8000

\* a status bit is clear and the raw bits are not zero
ClearButNonzero(v) ==
    \/ ~Valid(v.mcp) /\ RawAltitude(v.mcp) # 0
    \/ ~Valid(v.fms) /\ RawAltitude(v.fms) # 0
    \/ ~Valid(v.qnh) /\ RawQnh(v.qnh) # 0
    \/ ~Valid(v.f48) /\ v.f48[2] # 0
    \/ ~Valid(v.f54) /\ v.f54[2] # 0

AltitudeOutside(f) ==
    Valid(f) /\ (16 * RawAltitude(f) < 1000 \/ 16 * RawAltitude(f) > 50000)

QnhOutside(f) == Valid(f) /\ (8000 + RawQnh(f) < 9000 \/ 8000 + RawQnh(f) > 11000)

\* the cases in which the BDS4,0 candidate is to score 0
Vetoed40(v) ==
    \/ ~Valid(v.mcp) /\ ~Valid(v.fms) /\ ~Valid(v.qnh) /\ ~Valid(v.f48) /\ ~Valid(v.f54)
    \/ ClearButNonzero(v)
    \/ v.reserved_1 # 0 \/ v.reserved_2 # 0
    \/ AltitudeOutside(v.mcp) \/ AltitudeOutside(v.fms)
    \/ QnhOutside(v.qnh)

\* the remainder modulo 500 of a valid altitude is between 16 and 484
OffTheGrid(f) ==
    Valid(f) /\ (16 * RawAltitude(f)) % 500 >= 16 /\ (16 * RawAltitude(f)) % 500 <= 484

\* 13 per valid MCP, FMS and QNH field, 1 per absent one, less the penalties
AltQnhScore(v) ==
      (IF Valid(v.mcp) THEN 13 ELSE 1)
    + (IF Valid(v.fms) THEN 13 ELSE 1)
    + (IF Valid(v.qnh) THEN 13 ELSE 1)
    - (IF Valid(v.mcp) /\ Valid(v.fms) /\ RawAltitude(v.mcp) # RawAltitude(v.fms)
       THEN 4 ELSE 0)
    - (IF OffTheGrid(v.mcp) THEN 4 ELSE 0)
    - (IF OffTheGrid(v.fms) THEN 4 ELSE 0)

SourceOfRaw(raw) ==
    CASE raw = 0 -> "NAV_ALT_UNKNOWN"
      [] raw = 1 -> "NAV_ALT_AIRCRAFT"
      [] raw = 2 -> "NAV_ALT_MCP"
      [] raw = 3 -> "NAV_ALT_FMS"
      [] OTHER -> "NAV_ALT_INVALID"

ModesOfRaw(raw) ==
    { mode \in {"NAV_MODE_VNAV", "NAV_MODE_ALT_HOLD", "NAV_MODE_APPROACH"} :
        \/ mode = "NAV_MODE_VNAV" /\ (raw \div 4) % 2 = 1
        \/ mode = "NAV_MODE_ALT_HOLD" /\ (raw \div 2) % 2 = 1
        \/ mode = "NAV_MODE_APPROACH" /\ raw % 2 = 1 }

\* the descriptor after the store pass of the BDS4,0 candidate alone
Stored40 == decodeBDS40(entry, TRUE).mm

(* C9 as stated: the target altitude source is the field at bit 48 (raw    *)
(* bits 49..51): it scores 3 when valid, and the store pass maps raw 0, 1, *)
(* 2, 3 to UNKNOWN, AIRCRAFT, MCP, FMS, raw 4 and above to INVALID, and a  *)
(* clear status to INVALID; the autopilot mode is the field at bit 54 (raw *)
(* bits 55..56): it scores 4 when valid and is stored as the flags VNAV =  *)
(* 4, ALT_HOLD = 2, APPROACH = 1.                                          *)
SourceAtBit48ModeAtBit54 ==
    (Returned /\ ~Vetoed40(sv.v)) =>
        /\ ScoreOf("decodeBDS40") =
              AltQnhScore(sv.v) + (IF Valid(sv.v.f48) THEN 3 ELSE 1)
                                + (IF Valid(sv.v.f54) THEN 4 ELSE 1)
        /\ Stored40.nav.altitude_source =
              IF Valid(sv.v.f48) THEN SourceOfRaw(sv.v.f48[2]) ELSE "NAV_ALT_INVALID"
        /\ IF Valid(sv.v.f54)
           THEN Stored40.nav.modes_valid = 1 /\ Stored40.nav.modes = ModesOfRaw(sv.v.f54[2])
           ELSE Stored40.nav.modes_valid = 0 /\ Stored40.nav.modes = entry.nav.modes

(* C9, amended: the autopilot mode is the field at bit 48 (raw bits        *)
(* 49..51): it scores 4 when valid and is stored as the flags VNAV = 4,    *)
(* ALT_HOLD = 2, APPROACH = 1; the target altitude source is the field at  *)
(* bit 54 (raw bits 55..56): it scores 3 when valid, and the store pass    *)
(* maps raw 0, 1, 2, 3 to UNKNOWN, AIRCRAFT, MCP, FMS and a clear status   *)
(* to INVALID (two bits hold no raw value of 4 or above).                  *)
ModeAtBit48SourceAtBit54 ==
    (Returned /\ ~Vetoed40(sv.v)) =>
        /\ ScoreOf("decodeBDS40") =
              AltQnhScore(sv.v) + (IF Valid(sv.v.f48) THEN 4 ELSE 1)
                                + (IF Valid(sv.v.f54) THEN 3 ELSE 1)
        /\ Stored40.nav.altitude_source =
              IF Valid(sv.v.f54) THEN SourceOfRaw(sv.v.f54[2]) ELSE "NAV_ALT_INVALID"
        /\ Stored40.nav.altitude_source = "NAV_ALT_INVALID" => ~Valid(sv.v.f54)
        /\ IF Valid(sv.v.f48)
           THEN Stored40.nav.modes_valid = 1 /\ Stored40.nav.modes = ModesOfRaw(sv.v.f48[2])
           ELSE Stored40.nav.modes_valid = 0 /\ Stored40.nav.modes = entry.nav.modes

\* bits 49..51 hold 4 and bits 55..56 hold 3, and the value was stored
ModeVnavSourceFms ==
    /\ Returned
    /\ sv.v.f48 = <<1, 4>> /\ sv.v.f54 = <<1, 3>>
    /\ Result = "VERTICAL_INTENT"
    /\ mm.nav.modes = {"NAV_MODE_VNAV"}
    /\ mm.nav.altitude_source = "NAV_ALT_FMS"

---------------------------------------------------------------------------
(* C10 as stated: the BDS4,0 candidate scores 0 when all five status bits  *)
(* are clear, when a field has its status bit clear and raw bits that are  *)
(* not zero, when reserved bits 40..47 or 52..53 are not zero, when a      *)
(* valid MCP or FMS altitude raw*16 is outside 1000..50000 ft, or when a   *)
(* valid QNH is outside 900..1100 hPa; on every other payload the score is *)
(* above zero and is 13 per valid MCP, FMS and QNH field, 1 per absent     *)
(* field, less 4 when MCP and FMS are valid and differ, less 4 for each    *)
(* valid altitude whose remainder modulo 500 is between 16 and 484.        *)
Score40AsStated ==
    Returned =>
        IF Vetoed40(sv.v)
        THEN ScoreOf("decodeBDS40") = 0
        ELSE /\ ScoreOf("decodeBDS40") > 0
             /\ ScoreOf("decodeBDS40") =
                   AltQnhScore(sv.v) + (IF Valid(sv.v.f48) THEN 0 ELSE 1)
                                     + (IF Valid(sv.v.f54) THEN 0 ELSE 1)

(* C10, amended: the same, with 4 more for a valid field at bit 48 and 3   *)
(* more for a valid field at bit 54.                                       *)
Score40WithModeAndSource ==
    Returned =>
        IF Vetoed40(sv.v)
        THEN ScoreOf("decodeBDS40") = 0
        ELSE /\ ScoreOf("decodeBDS40") > 0
             /\ ScoreOf("decodeBDS40") =
                   AltQnhScore(sv.v) + (IF Valid(sv.v.f48) THEN 4 ELSE 1)
                                     + (IF Valid(sv.v.f54) THEN 3 ELSE 1)

\* MCP at 50000 ft and FMS at 1008 ft, the fields at bits 48 and 54 valid
AltitudesAtTheEnds ==
    /\ Returned
    /\ sv.v.mcp = <<1, 50000>> /\ RawAltitude(sv.v.fms) = 63
    /\ Valid(sv.v.fms) /\ Valid(sv.v.qnh) /\ Valid(sv.v.f48) /\ Valid(sv.v.f54)
    /\ ScoreOf("decodeBDS40") = 13 + 13 + 13 + 4 + 3 - 4

---------------------------------------------------------------------------
(* The BDS5,0 properties speak of the fields of the payload at hand: the   *)
(* status bits 1, 12, 24, 35 and 46, roll in 1/256 degree, the speeds in   *)
(* kt and the track rate in 1/32 degree/s.                                 *)

Roll50 == 45 * getbits(entry.MB, 3, 11) - 90 * 256 * getbit(entry.MB, 2)

Track50 == 90 * getbits(entry.MB, 14, 23) + 180 * 512 * getbit(entry.MB, 13)

Gs50 == 2 * getbits(entry.MB, 25, 34)

TrackRate50 == getbits(entry.MB, 37, 45) - 16 * 32 * getbit(entry.MB, 36)

Tas50 == 2 * getbits(entry.MB, 47, 56)

Accepted50 == Ungated /\ ScoreOf("decodeBDS50") # 0

\* the frame at hand with another ground speed in its BDS5,0 payload
WithGroundSpeed(gs) ==
    [entry EXCEPT !.MB = Pack(Layout50([sv.v EXCEPT !.gs = gs]))]

(* C11: on a payload the BDS5,0 candidate accepts whose ground speed and   *)
(* true airspeed are more than 150 kt apart, the score is 6 below the      *)
(* score of the payload that differs only in a ground speed within 150 kt  *)
(* of the true airspeed.                                                   *)
GsTasPenaltyApplied ==
    (Accepted50 /\ sv.v.reg = "BDS50" /\ Abs(Gs50 - Tas50) > 150) =>
        \A gs \in SpeedInRange :
            Abs(gs[2] - Tas50) <= 150 =>
                ScoreOf("decodeBDS50")
                    = decodeBDS50(WithGroundSpeed(gs), FALSE).score - 6

---------------------------------------------------------------------------
(* C12: the BDS5,0 candidate scores 0 when the status bit of roll (1),     *)
(* track (12), ground speed (24) or true airspeed (46) is clear, when the  *)
(* roll is outside [-40, 40) degrees, when the ground speed or the true    *)
(* airspeed is outside [50, 700] kt, when a valid track rate is outside    *)
(* [-10, 10] degrees/s, and when the track rate's status bit is clear with *)
(* its sign or raw bits set; a speed of 50 or of 700 kt is accepted when   *)
(* nothing else is in the way; on a payload it accepts, the store pass sets *)
(* roll, heading (of type GROUND_TRACK), gs and tas valid, and gs.v0,      *)
(* gs.v2 and gs.selected all hold the decoded ground speed.                *)

Vetoed50 ==
    \/ getbit(entry.MB, 1) = 0 \/ getbit(entry.MB, 12) = 0
    \/ getbit(entry.MB, 24) = 0 \/ getbit(entry.MB, 46) = 0
    \/ Roll50 < -40 * 256 \/ Roll50 >= 40 * 256
    \/ Gs50 < 50 \/ Gs50 > 700
    \/ Tas50 < 50 \/ Tas50 > 700
    \/ getbit(entry.MB, 35) = 1 /\ (TrackRate50 < -10 * 32 \/ TrackRate50 > 10 * 32)
    \/ getbit(entry.MB, 35) = 0 /\ getbits(entry.MB, 36, 45) # 0

\* the descriptor after the store pass of the BDS5,0 candidate alone
Stored50 == decodeBDS50(entry, TRUE).mm

Score50AndStore ==
    Ungated =>
        /\ Vetoed50 => ScoreOf("decodeBDS50") = 0
        /\ (~Vetoed50 /\ (Gs50 \in {50, 700} \/ Tas50 \in {50, 700}))
               => ScoreOf("decodeBDS50") > 0
        /\ Accepted50 =>
              /\ Stored50.roll_valid = 1 /\ Stored50.roll = Roll50
              /\ Stored50.heading_valid = 1 /\ Stored50.heading = Track50
              /\ Stored50.heading_type = "HEADING_GROUND_TRACK"
              /\ Stored50.gs_valid = 1
              /\ Stored50.gs = [v0 |-> Gs50, v2 |-> Gs50, selected |-> Gs50]
              /\ Stored50.tas_valid = 1 /\ Stored50.tas = Tas50
              /\ Result = "TRACK_TURN" => mm = Stored50

\* ground speed 50 kt and true airspeed 700 kt came back as a track and turn
\* report
SpeedsAtTheEnds ==
    /\ Accepted50
    /\ Gs50 = 50 /\ Tas50 = 700
    /\ Result = "TRACK_TURN"
    /\ mm.gs.v0 = 50 /\ mm.gs.v2 = 50 /\ mm.gs.selected = 50 /\ mm.tas = 700
    /\ mm.heading_type = "HEADING_GROUND_TRACK"


---------------------------------------------------------------------------
(* The BDS4,4 properties speak of the fields of the payload at hand: the   *)
(* source (bits 1..4), the wind speed in kt, the static air temperature in *)
(* quarter degrees C and the average static pressure in hPa.               *)

Source44 == getbits(entry.MB, 1, 4)

Wind44 == getbits(entry.MB, 6, 14)

Sat44 == getbits(entry.MB, 26, 34) - 128 * 4 * getbit(entry.MB, 25)

Asp44 == getbits(entry.MB, 36, 46)

\* the cases in which the BDS4,4 candidate is to score 0
Vetoed44 ==
    \/ Source44 = MRAR_SOURCE_INVALID \/ Source44 >= MRAR_SOURCE_RESERVED
    \/ getbit(entry.MB, 5) = 0 \/ getbit(entry.MB, 24) = 0
    \/ Wind44 > 250
    \/ Sat44 < -80 * 4 \/ Sat44 > 60 * 4
    \/ getbit(entry.MB, 35) = 1 /\ (Asp44 < 25 \/ Asp44 > 1100)
    \/ getbit(entry.MB, 35) = 0 /\ Asp44 # 0
    \/ getbit(entry.MB, 47) = 0 /\ getbits(entry.MB, 48, 49) # 0
    \/ getbit(entry.MB, 50) = 0 /\ getbits(entry.MB, 51, 56) # 0

\* 12 for a valid pressure, 3 for a valid turbulence, 7 for a valid
\* humidity, 1 for each of them that is absent
AspTurbulenceHumidityScore ==
      (IF getbit(entry.MB, 35) = 1 THEN 12 ELSE 1)
    + (IF getbit(entry.MB, 47) = 1 THEN 3 ELSE 1)
    + (IF getbit(entry.MB, 50) = 1 THEN 7 ELSE 1)

Accepted44 == Ungated /\ ScoreOf("decodeBDS44") # 0

(* C13 as stated: on a payload the BDS4,4 candidate accepts with a source  *)
(* other than DME/DME the score is 19 for the wind (speed up to 250 kt),   *)
(* 11 for the temperature (-80..60 degrees C), 12 for a valid pressure of  *)
(* 25..1100 hPa, 3 for a valid turbulence, 7 for a valid humidity, and 1   *)
(* for each of pressure, turbulence and humidity that is absent; the score *)
(* is 0 when the source is 0 or reserved, when wind or temperature is not  *)
(* valid, when the wind speed is above 250 kt, when the temperature or the *)
(* pressure is out of range, or when pressure, turbulence or humidity is   *)
(* not valid and has raw bits set.                                         *)
Score44AsStated ==
    Ungated =>
        /\ Vetoed44 => ScoreOf("decodeBDS44") = 0
        /\ (Accepted44 /\ Source44 # MRAR_SOURCE_DMEDME) =>
              ScoreOf("decodeBDS44") = 19 + 11 + AspTurbulenceHumidityScore
        /\ (~Vetoed44 /\ Sat44 \in {-80 * 4, 60 * 4}) => ScoreOf("decodeBDS44") > 0

(* C13, amended: the same, but the wind scores 2 instead of 19 when its    *)
(* speed is 0 and the temperature scores 2 instead of 11 when it is        *)
(* exactly 0 degrees C.                                                    *)
Score44WithZeroes ==
    Ungated =>
        /\ Vetoed44 => ScoreOf("decodeBDS44") = 0
        /\ (Accepted44 /\ Source44 # MRAR_SOURCE_DMEDME) =>
              ScoreOf("decodeBDS44") =
                    (IF Wind44 = 0 THEN 2 ELSE 19) + (IF Sat44 = 0 THEN 2 ELSE 11)
                    + AspTurbulenceHumidityScore
        /\ (~Vetoed44 /\ Sat44 \in {-80 * 4, 60 * 4}) => ScoreOf("decodeBDS44") > 0

\* a report from an INS with no wind, at 60 degrees C, everything else valid
CalmAtSixtyDegrees ==
    /\ Accepted44
    /\ Source44 = 1
    /\ Wind44 = 0 /\ Sat44 = 60 * 4
    /\ ScoreOf("decodeBDS44") = 2 + 11 + 12 + 3 + 7
    /\ Result = "MRAR"

---------------------------------------------------------------------------
(* The BDS6,0 properties speak of the fields of the payload at hand: the   *)
(* status bits 1, 13, 24, 35 and 46, the heading in 1/512 degree, the      *)
(* indicated airspeed in kt, the Mach number in thousandths (2.048 / 512   *)
(* is 4 thousandths) and the two vertical rates in ft/min.                 *)

Heading60 == 90 * getbits(entry.MB, 3, 12) + 180 * 512 * getbit(entry.MB, 2)

Ias60 == getbits(entry.MB, 14, 23)

Mach60 == 4 * getbits(entry.MB, 25, 34)

BaroRate60 == 32 * getbits(entry.MB, 37, 45) - 16384 * getbit(entry.MB, 36)

InertialRate60 == 32 * getbits(entry.MB, 48, 56) - 16384 * getbit(entry.MB, 47)

BaroValid60 == getbit(entry.MB, 35) = 1

InertialValid60 == getbit(entry.MB, 46) = 1

\* the cases in which the BDS6,0 candidate is to score 0
Vetoed60 ==
    \/ getbit(entry.MB, 1) = 0 \/ getbit(entry.MB, 13) = 0 \/ getbit(entry.MB, 24) = 0
    \/ ~BaroValid60 /\ ~InertialValid60
    \/ Ias60 < 50 \/ Ias60 > 700
    \/ Mach60 < 100 \/ Mach60 > 900
    \/ BaroValid60 /\ (BaroRate60 < -6000 \/ BaroRate60 > 6000)
    \/ InertialValid60 /\ (InertialRate60 < -6000 \/ InertialRate60 > 6000)

Accepted60 == Ungated /\ ScoreOf("decodeBDS60") # 0

\* the descriptor after the store pass of the BDS6,0 candidate alone
Stored60 == decodeBDS60(entry, TRUE).mm

(* C14: the BDS6,0 candidate scores 0 when the status bit of heading (1),  *)
(* IAS (13) or Mach (24) is clear or both vertical rate status bits (35,   *)
(* 46) are, when the IAS is outside [50, 700] kt, the Mach number outside  *)
(* [0.1, 0.9], or a valid vertical rate outside [-6000, 6000] ft/min; on a *)
(* payload it accepts the score is 12 + 11 + 11, plus 11 per valid rate    *)
(* and 1 per absent rate, less 12 when both rates are valid and more than  *)
(* 2000 ft/min apart, and is above zero; the store pass writes the heading *)
(* with type MAGNETIC, the barometric rate as baro_rate and the inertial   *)
(* rate as geom_rate, never as baro_rate.                                  *)
Score60AndStore ==
    Ungated =>
        /\ Vetoed60 => ScoreOf("decodeBDS60") = 0
        /\ Accepted60 =>
              /\ ScoreOf("decodeBDS60") =
                      12 + 11 + 11
                    + (IF BaroValid60 THEN 11 ELSE 1)
                    + (IF InertialValid60 THEN 11 ELSE 1)
                    - (IF BaroValid60 /\ InertialValid60
                          /\ Abs(BaroRate60 - InertialRate60) > 2000
                       THEN 12 ELSE 0)
              /\ ScoreOf("decodeBDS60") > 0
              /\ Stored60.heading_valid = 1 /\ Stored60.heading = Heading60
              /\ Stored60.heading_type = "HEADING_MAGNETIC"
              /\ IF InertialValid60
                 THEN Stored60.geom_rate_valid = 1 /\ Stored60.geom_rate = InertialRate60
                 ELSE Stored60.geom_rate_valid = entry.geom_rate_valid
                      /\ Stored60.geom_rate = entry.geom_rate
              /\ IF BaroValid60
                 THEN Stored60.baro_rate_valid = 1 /\ Stored60.baro_rate = BaroRate60
                 ELSE Stored60.baro_rate_valid = entry.baro_rate_valid
                      /\ Stored60.baro_rate = entry.baro_rate
              /\ Result = "HEADING_SPEED" => mm = Stored60

\* a descent by inertial rate alone came back as geom_rate, baro_rate untouched
InertialRateAsGeomRate ==
    /\ Accepted60
    /\ ~BaroValid60 /\ InertialValid60 /\ InertialRate60 = -1024
    /\ Result = "HEADING_SPEED"
    /\ mm.geom_rate_valid = 1 /\ mm.geom_rate = -1024
    /\ mm.baro_rate_valid = 0 /\ mm.baro_rate = Stale
    /\ mm.heading_type = "HEADING_MAGNETIC"
    /\ ScoreOf("decodeBDS60") = 12 + 11 + 11 + 1 + 11

---------------------------------------------------------------------------
(* SpecId: payloads that start with the identifier byte of an empty        *)
(* response, of BDS1,0 or of BDS3,0, with bits set and clear in every      *)
(* part of what follows, in DF20 and DF21 replies, with no AC and with the *)
(* AC that matches bits 9..20, in fresh and used descriptors.              *)

ValuesIdWide ==
    { ValueId(id, b2, hi, lo) :
        id \in {0, 16, 48, 64, 80, 96},
        b2 \in {0, 1, 2, 4, 8, 64, 128, 131, 255},
        hi \in {0, 1, 4096, 524288, 1048575},
        lo \in {0, 1, 1048575} }

FramesId ==
    { Frame(msgtype, 0, 0, 0, AC, image, s) :
        s \in Samples(ValuesIdWide, FALSE), msgtype \in {20, 21},
        AC \in {0, 195}, image \in {"fresh", "used"} }
    \cup { Plain(s, MatchingAC(s.MB)) : s \in Samples(ValuesIdWide, FALSE) }

InitId == InitWith(FramesId)

SpecId == InitId /\ [][Next]_vars

(* C15: on an ungated payload that the empty response candidate accepts    *)
(* (first byte 0x00, 0x40, 0x50 or 0x60, the other six bytes zero), that   *)
(* the BDS1,0 candidate accepts (first byte 0x10, bits 10..14 zero) or     *)
(* that the BDS3,0 candidate accepts (first byte 0x30), every other        *)
(* candidate scores below 56, the result is EMPTY_RESPONSE, DATALINK_CAPS  *)
(* or ACAS_RA respectively, and nothing but commb_format is written.       *)

\* the candidate that is to take the payload at hand, "NULL" when none is
IdentifiedBy ==
    IF entry.MB[1] \in {0, 64, 80, 96} /\ \A i \in 2..7 : entry.MB[i] = 0
    THEN "decodeEmptyResponse"
    ELSE IF entry.MB[1] = 16 /\ getbits(entry.MB, 10, 14) = 0 THEN "decodeBDS10"
    ELSE IF entry.MB[1] = 48 THEN "decodeBDS30"
    ELSE "NULL"

TagOf(fn) ==
    CASE fn = "decodeEmptyResponse" -> "EMPTY_RESPONSE"
      [] fn = "decodeBDS10" -> "DATALINK_CAPS"
      [] fn = "decodeBDS30" -> "ACAS_RA"

IdentifiedNeverAmbiguous ==
    (Ungated /\ IdentifiedBy # "NULL") =>
        /\ ScoreOf(IdentifiedBy) = 56
        /\ \A fn \in Candidates \ {IdentifiedBy} : ScoreOf(fn) < 56
        /\ Result = TagOf(IdentifiedBy)
        /\ mm = [entry EXCEPT !.commb_format = TagOf(IdentifiedBy)]

\* a 0x50 payload with nothing after it, in a DF21 reply and a used
\* descriptor, came back as an empty response
EmptyResponseReturned ==
    /\ Ungated
    /\ entry.MB[1] = 80 /\ entry.msgtype = 21 /\ entry.callsign_valid = 1
    /\ IdentifiedBy = "decodeEmptyResponse"
    /\ Result = "EMPTY_RESPONSE"

===========================================================================
